---- MODULE Spec2Model ----
(***************************************************************************)
(* Model of the Slack bridge (src/server.js and the other revisions of the *)
(* same file kept under src/unnamed).  The repository holds several         *)
(* revisions of one program; the variable rev selects the revision whose    *)
(* code a behaviour runs:                                                   *)
(*   "server"   src/server.js  (src/unnamed/part_001 repeats its            *)
(*              processInsightsSignal, src/unnamed/part_004 an earlier      *)
(*              getTenantAndSlackClient)                                    *)
(*   "part_000" src/unnamed/part_000   multi-label classifier, no embedding *)
(*   "part_002" src/unnamed/part_002   "hardened" revision, app.event       *)
(*   "part_003" src/unnamed/part_003   "clean" revision                     *)
(*   "part_005" src/unnamed/part_005   interventions only, inline /ask      *)
(*   "part_006" src/unnamed/part_006   earliest revision                    *)
(***************************************************************************)
EXTENDS Integers, Sequences, FiniteSets, TLC

(***************************************************************************)
(* JavaScript values.  A value is a record [t, v]: t is the type tag and v  *)
(* a sequence (the characters of a string, empty for undefined and null).   *)
(* A character is a one-character string; a string whose inner structure    *)
(* the code never inspects (a subtype, a team id) is kept as one symbol.    *)
(***************************************************************************)
Str(s) == [t |-> "str", v |-> s]
Sym(a) == [t |-> "str", v |-> <<a>>]
Undef == [t |-> "undef", v |-> <<>>]
\* a number, by its decimal digits
Num(d) == [t |-> "num", v |-> d]

IsStr(x) == x.t = "str"
Truthy(x) ==
  CASE x.t = "str" -> x.v # <<>>
    [] x.t = "num" -> x.v # <<"0">>
    [] OTHER -> FALSE
\* a || b
OrElse(a, b) == IF Truthy(a) THEN a ELSE b

(***************************************************************************)
(* Characters and the character classes of the regular expressions.         *)
(***************************************************************************)
Digit == {"0", "1", "2", "3", "4", "5", "6", "7", "8", "9"}
AlphaLower ==
  <<"a", "b", "c", "d", "e", "f", "g", "h", "i", "j", "k", "l", "m",
    "n", "o", "p", "q", "r", "s", "t", "u", "v", "w", "x", "y", "z">>
AlphaUpper ==
  <<"A", "B", "C", "D", "E", "F", "G", "H", "I", "J", "K", "L", "M",
    "N", "O", "P", "Q", "R", "S", "T", "U", "V", "W", "X", "Y", "Z">>
LowerLetter == {AlphaLower[i] : i \in DOMAIN AlphaLower}
UpperLetter == {AlphaUpper[i] : i \in DOMAIN AlphaUpper}
AsciiLetter == LowerLetter \cup UpperLetter
\* letters outside ASCII, each one character (one UTF-16 unit)
NonAsciiLetter == {"e-acute", "n-tilde"}
WhiteSpace == {" ", "\n", "\t"}
\* \w of a regular expression without the u flag
WordChar == AsciiLetter \cup Digit \cup {"_"}
\* \p{L} and \p{N}
UniLetter == AsciiLetter \cup NonAsciiLetter
UniNumber == Digit

ToLowerChar(c) ==
  IF c \in UpperLetter
    THEN AlphaLower[CHOOSE i \in DOMAIN AlphaUpper : AlphaUpper[i] = c]
    ELSE c
ToLowerCase(s) == [i \in DOMAIN s |-> ToLowerChar(s[i])]

(***************************************************************************)
(* A backtracking matcher for the regular expressions of the code.  A       *)
(* pattern is a sequence of elements: a word boundary [k |-> "wb"], or a    *)
(* character class with a greedy quantifier                                 *)
(* [k |-> "cls", neg, chars, min, max] (max = 0: no upper limit).           *)
(***************************************************************************)
Cls(chars, min, max) ==
  [k |-> "cls", neg |-> FALSE, chars |-> chars, min |-> min, max |-> max]
NotCls(chars, min, max) ==
  [k |-> "cls", neg |-> TRUE, chars |-> chars, min |-> min, max |-> max]
Lit(c) == Cls({c}, 1, 1)
WB == [k |-> "wb", neg |-> FALSE, chars |-> {}, min |-> 0, max |-> 0]

InClass(c, e) == IF e.neg THEN c \notin e.chars ELSE c \in e.chars

IsWordAt(s, i) == i >= 1 /\ i <= Len(s) /\ s[i] \in WordChar
\* \b before the character at pos
WordBoundary(s, pos) == IsWordAt(s, pos - 1) # IsWordAt(s, pos)

RECURSIVE RunLen(_, _, _, _)
\* how many characters from pos on are in the class of e, at most cap (0: no cap)
RunLen(s, pos, e, cap) ==
  IF pos > Len(s) \/ ~InClass(s[pos], e) \/ cap = 1
    THEN (IF pos <= Len(s) /\ InClass(s[pos], e) THEN 1 ELSE 0)
    ELSE 1 + RunLen(s, pos + 1, e, IF cap = 0 THEN 0 ELSE cap - 1)

RECURSIVE MatchFrom(_, _, _, _)
RECURSIVE TryCounts(_, _, _, _, _)
\* the end (the position after the last matched character) of the match of
\* pat[k..] at pos that a backtracking engine finds first, 0 when there is none
MatchFrom(pat, k, s, pos) ==
  IF k > Len(pat) THEN pos
  ELSE IF pat[k].k = "wb"
    THEN (IF WordBoundary(s, pos) THEN MatchFrom(pat, k + 1, s, pos) ELSE 0)
    ELSE TryCounts(pat, k, s, pos, RunLen(s, pos, pat[k], pat[k].max))
TryCounts(pat, k, s, pos, c) ==
  IF c < pat[k].min THEN 0
  ELSE LET r == MatchFrom(pat, k + 1, s, pos + c)
       IN IF r # 0 THEN r ELSE TryCounts(pat, k, s, pos, c - 1)

RECURSIVE ReplaceFrom(_, _, _)
ReplaceFrom(pat, s, i) ==
  IF i > Len(s) THEN <<>>
  ELSE LET e == MatchFrom(pat, 1, s, i)
       IN IF e > i THEN <<" ">> \o ReplaceFrom(pat, s, e)
          ELSE <<s[i]>> \o ReplaceFrom(pat, s, i + 1)
\* s.replace(/pat/g, " ")
ReplaceAll(pat, s) == ReplaceFrom(pat, s, 1)

\* whether /pat/ matches somewhere in s
Test(pat, s) == \E i \in 1..(Len(s) + 1) : MatchFrom(pat, 1, s, i) # 0

RECURSIVE TrimStart(_)
TrimStart(s) ==
  IF s # <<>> /\ Head(s) \in WhiteSpace THEN TrimStart(Tail(s)) ELSE s
RECURSIVE TrimEnd(_)
TrimEnd(s) ==
  IF s # <<>> /\ s[Len(s)] \in WhiteSpace
    THEN TrimEnd(SubSeq(s, 1, Len(s) - 1)) ELSE s
\* s.trim()
Trim(s) == TrimEnd(TrimStart(s))

RECURSIVE SplitFrom(_, _, _)
\* s.split(/\s+/): the pieces between runs of white space, empty pieces at the
\* ends included
SplitFrom(s, i, cur) ==
  IF i > Len(s) THEN <<cur>>
  ELSE IF s[i] \in WhiteSpace
    THEN (IF i > 1 /\ s[i - 1] \in WhiteSpace
            THEN SplitFrom(s, i + 1, cur)
            ELSE <<cur>> \o SplitFrom(s, i + 1, <<>>))
    ELSE SplitFrom(s, i + 1, Append(cur, s[i]))
SplitWS(s) == SplitFrom(s, 1, <<>>)
NonEmpty(ws) == SelectSeq(ws, LAMBDA w : w # <<>>)
\* s.slice(0, n)
Slice(s, n) == IF Len(s) > n THEN SubSeq(s, 1, n) ELSE s

(***************************************************************************)
(* The revisions.                                                           *)
(***************************************************************************)
Revisions ==
  {"server", "part_000", "part_002", "part_003", "part_005", "part_006"}
\* the revisions that define processInsightsSignal
InsightsRevs == {"server", "part_000", "part_002", "part_003"}
\* the revisions whose message handler has an intervention path
InterventionRevs == {"server", "part_000", "part_005", "part_006"}

(***************************************************************************)
(* The regular expressions of sanitizeTextForInsights.                      *)
(***************************************************************************)
PhoneSep == {"-", "."} \cup WhiteSpace
DateSep == {".", "/", "-"}
\* /<@[\w]+>/g
RE_UserMention == <<Lit("<"), Lit("@"), Cls(WordChar, 1, 0), Lit(">")>>
\* /<#[\w]+>/g
RE_ChannelMention == <<Lit("<"), Lit("#"), Cls(WordChar, 1, 0), Lit(">")>>
\* /https?:\/\/\S+/gi
RE_UrlCI ==
  <<Cls({"h", "H"}, 1, 1), Cls({"t", "T"}, 1, 1), Cls({"t", "T"}, 1, 1),
    Cls({"p", "P"}, 1, 1), Cls({"s", "S"}, 0, 1), Lit(":"), Lit("/"),
    Lit("/"), NotCls(WhiteSpace, 1, 0)>>
\* /https?:\/\/\S+/g
RE_Url ==
  <<Lit("h"), Lit("t"), Lit("t"), Lit("p"), Cls({"s"}, 0, 1), Lit(":"),
    Lit("/"), Lit("/"), NotCls(WhiteSpace, 1, 0)>>
\* /[\w.+-]+@[\w.-]+/g
RE_Email ==
  <<Cls(WordChar \cup {".", "+", "-"}, 1, 0), Lit("@"),
    Cls(WordChar \cup {".", "-"}, 1, 0)>>
\* /\b\+?\d{1,3}[-.\s]?\d{2,4}[-.\s]?\d{3,4}[-.\s]?\d{0,4}\b/g
RE_Phone ==
  <<WB, Cls({"+"}, 0, 1), Cls(Digit, 1, 3), Cls(PhoneSep, 0, 1),
    Cls(Digit, 2, 4), Cls(PhoneSep, 0, 1), Cls(Digit, 3, 4),
    Cls(PhoneSep, 0, 1), Cls(Digit, 0, 4), WB>>
\* /\b\+?\d{1,3}[-.\s]?\d{2,4}[-.\s]?\d{3,4}\b/g
RE_Phone3 ==
  <<WB, Cls({"+"}, 0, 1), Cls(Digit, 1, 3), Cls(PhoneSep, 0, 1),
    Cls(Digit, 2, 4), Cls(PhoneSep, 0, 1), Cls(Digit, 3, 4), WB>>
\* /\b\d{1,2}[./-]\d{1,2}[./-]\d{2,4}\b/g
RE_Date ==
  <<WB, Cls(Digit, 1, 2), Cls(DateSep, 1, 1), Cls(Digit, 1, 2),
    Cls(DateSep, 1, 1), Cls(Digit, 2, 4), WB>>
\* /\b\d{4,}\b/g
RE_LongDigits == <<WB, Cls(Digit, 4, 0), WB>>
\* /[^\w\s]/g
RE_Punct == <<NotCls(WordChar \cup WhiteSpace, 1, 1)>>
\* /[^\p{L}\p{N}\s]/gu
RE_PunctU == <<NotCls(UniLetter \cup UniNumber \cup WhiteSpace, 1, 1)>>
\* /\s+/g
RE_Spaces == <<Cls(WhiteSpace, 1, 0)>>

\* the replacements of each revision, one step each, on a string
StripMentions(s) == ReplaceAll(RE_ChannelMention, ReplaceAll(RE_UserMention, s))
StripUrls(r, s) == ReplaceAll(IF r = "part_003" THEN RE_Url ELSE RE_UrlCI, s)
StripEmails(s) == ReplaceAll(RE_Email, s)
StripPhones(r, s) ==
  CASE r \in {"server", "part_000"} -> ReplaceAll(RE_Phone, s)
    [] r = "part_002" -> ReplaceAll(RE_Phone3, s)
    [] OTHER -> s
StripDates(s) == ReplaceAll(RE_Date, s)
StripLongDigits(r, s) ==
  IF r \in {"server", "part_000"} THEN ReplaceAll(RE_LongDigits, s) ELSE s
StripPunct(r, s) ==
  ReplaceAll(IF r \in {"server", "part_000"} THEN RE_Punct ELSE RE_PunctU, s)
SanitizeChain(r, s) ==
  Trim(ReplaceAll(RE_Spaces,
    StripPunct(r, StripLongDigits(r, StripDates(StripPhones(r,
      StripEmails(StripUrls(r, StripMentions(s)))))))))

\* whether sanitizeTextForInsights(x) throws: part_000 calls x.replace
\* unguarded, part_003 guards only falsy values
sanitizeThrows(r, x) ==
  CASE r = "part_000" -> ~IsStr(x)
    [] r = "part_003" -> Truthy(x) /\ ~IsStr(x)
    [] OTHER -> FALSE

\* sanitizeTextForInsights(x) where it does not throw (the characters of the
\* result).  server.js converts with String(x): the decimal digits of a number
sanitizeTextForInsights(r, x) ==
  IF (~Truthy(x) /\ r # "part_000") \/ (~IsStr(x) /\ r # "server")
    THEN <<>>
    ELSE SanitizeChain(r, x.v)

(***************************************************************************)
(* Eligibility and noise.                                                   *)
(***************************************************************************)
StartsWith(s, c) == Len(s) >= 1 /\ s[1] = c

isPublicChannel(r, m) ==
  IF r = "part_003"
    THEN Truthy(m.channel) /\ StartsWith(m.channel.v, "C")
    ELSE /\ ~(Truthy(m.channel_type) /\ m.channel_type # Sym("channel"))
         /\ ~(IsStr(m.channel) /\ ~StartsWith(m.channel.v, "C"))

\* /^(:\w+:\s*)+$/
RE_EmojiToken ==
  <<Lit(":"), Cls(WordChar, 1, 0), Lit(":"), Cls(WhiteSpace, 0, 0)>>
RECURSIVE EmojiOnlyFrom(_, _)
EmojiOnlyFrom(s, i) ==
  LET e == MatchFrom(RE_EmojiToken, 1, s, i)
  IN e # 0 /\ (e > Len(s) \/ EmojiOnlyFrom(s, e))
EmojiOnly(s) == EmojiOnlyFrom(s, 1)

\* the text the word count of isEligibleForInsights reads
EligibleText(r, m) ==
  IF r = "server" THEN (IF IsStr(m.text) THEN m.text.v ELSE <<>>)
  ELSE (IF Truthy(m.text) THEN m.text.v ELSE <<>>)

EligibleWordCount(r, s) ==
  IF r = "part_003" THEN Len(SplitWS(Trim(s)))
  ELSE Len(NonEmpty(SplitWS(s)))

SystemSubtypes ==
  {Sym("channel_join"), Sym("channel_leave"), Sym("channel_topic"),
   Sym("channel_purpose")}

\* whether isEligibleForInsights(m) throws: a truthy text that is no string
\* has no split (part_000) and no trim (part_003)
isEligibleThrows(r, m) ==
  /\ r \in {"part_000", "part_003"}
  /\ isPublicChannel(r, m)
  /\ ~Truthy(m.bot_id)
  /\ ~(r = "part_000" /\ m.subtype = Sym("bot_message"))
  /\ m.subtype \notin SystemSubtypes \cup {Sym("file_share")}
  /\ Truthy(m.text) /\ ~IsStr(m.text)

isEligibleForInsights(r, m) ==
  /\ isPublicChannel(r, m)
  /\ ~Truthy(m.bot_id)
  /\ (r # "part_003" => m.subtype # Sym("bot_message"))
  /\ m.subtype # Sym("file_share")
  /\ m.subtype \notin SystemSubtypes
  /\ EligibleWordCount(r, EligibleText(r, m)) >= 4
  /\ ~EmojiOnly(Trim(EligibleText(r, m)))

\* /^[\d\s:\/\-.,]+$/ and /\d/
isNumericOrDateOnly(r, s) ==
  LET t == IF r = "part_003" THEN s ELSE Trim(s)
  IN /\ t # <<>>
     /\ \A i \in DOMAIN t :
          t[i] \in Digit \cup WhiteSpace \cup {":", "/", "-", ".", ","}
     /\ \E i \in DOMAIN t : t[i] \in Digit

\* crypto.createHash("sha256").update(text).digest("hex"): a digest, taken to
\* be free of collisions
hashMessage(s) == <<"sha256", s>>

(***************************************************************************)
(* The word lists of the classifiers and of extractKeywords.  negativeWords *)
(* and positiveWords are those of server.js, WORDS_* the lexicons of        *)
(* part_000 and part_002, WORDS3_* those of part_003; each lexicon is a set *)
(* of <<word, weight>>.                                                     *)
(***************************************************************************)
negativeWords ==
  { <<"u", "n", "s", "a", "f", "e">>,
    <<"f", "r", "u", "s", "t", "r", "a", "t", "e", "d">>,
    <<"a", "n", "g", "r", "y">>,
    <<"w", "o", "r", "r", "i", "e", "d">>,
    <<"c", "o", "n", "c", "e", "r", "n", "e", "d">>,
    <<"p", "r", "o", "b", "l", "e", "m">>,
    <<"i", "s", "s", "u", "e">>,
    <<"h", "a", "t", "e">>,
    <<"b", "a", "d">>,
    <<"w", "o", "r", "s", "t">>,
    <<"t", "e", "r", "r", "i", "b", "l", "e">>,
    <<"d", "i", "s", "a", "p", "p", "o", "i", "n", "t", "e", "d">>,
    <<"a", "n", "n", "o", "y", "e", "d">>,
    <<"c", "o", "n", "f", "u", "s", "e", "d">>,
    <<"s", "t", "u", "c", "k">>,
    <<"b", "r", "o", "k", "e", "n">>,
    <<"f", "a", "i", "l", "i", "n", "g">>,
    <<"u", "r", "g", "e", "n", "t">>,
    <<"e", "m", "e", "r", "g", "e", "n", "c", "y">> }

positiveWords ==
  { <<"g", "r", "e", "a", "t">>,
    <<"l", "o", "v", "e">>,
    <<"e", "x", "c", "e", "l", "l", "e", "n", "t">>,
    <<"a", "m", "a", "z", "i", "n", "g">>,
    <<"h", "a", "p", "p", "y">>,
    <<"e", "x", "c", "i", "t", "e", "d">>,
    <<"t", "h", "a", "n", "k", "s">>,
    <<"h", "e", "l", "p", "f", "u", "l">>,
    <<"a", "p", "p", "r", "e", "c", "i", "a", "t", "e">>,
    <<"a", "w", "e", "s", "o", "m", "e">>,
    <<"f", "a", "n", "t", "a", "s", "t", "i", "c">>,
    <<"p", "e", "r", "f", "e", "c", "t">>,
    <<"w", "o", "n", "d", "e", "r", "f", "u", "l">>,
    <<"g", "o", "o", "d">>,
    <<"n", "i", "c", "e">>,
    <<"p", "l", "e", "a", "s", "e", "d">>,
    <<"d", "e", "l", "i", "g", "h", "t", "e", "d">> }

stopWords ==
  { <<"t", "h", "i", "s">>,
    <<"t", "h", "a", "t">>,
    <<"w", "i", "t", "h">>,
    <<"f", "r", "o", "m">>,
    <<"h", "a", "v", "e">>,
    <<"b", "e", "e", "n">>,
    <<"w", "e", "r", "e">>,
    <<"t", "h", "e", "y">>,
    <<"t", "h", "e", "i", "r">>,
    <<"w", "o", "u", "l", "d">>,
    <<"c", "o", "u", "l", "d">>,
    <<"s", "h", "o", "u", "l", "d">>,
    <<"a", "b", "o", "u", "t">>,
    <<"w", "h", "a", "t">>,
    <<"w", "h", "e", "n">>,
    <<"w", "h", "e", "r", "e">>,
    <<"w", "h", "i", "c", "h">>,
    <<"t", "h", "e", "r", "e">>,
    <<"h", "e", "r", "e">>,
    <<"j", "u", "s", "t">>,
    <<"a", "l", "s", "o">>,
    <<"o", "n", "l", "y">>,
    <<"s", "o", "m", "e">>,
    <<"v", "e", "r", "y">>,
    <<"r", "e", "a", "l", "l", "y">>,
    <<"a", "c", "t", "u", "a", "l", "l", "y">>,
    <<"b", "a", "s", "i", "c", "a", "l", "l", "y">>,
    <<"l", "i", "t", "e", "r", "a", "l", "l", "y">> }

stopWords_part_003 ==
  { <<"t", "h", "i", "s">>,
    <<"t", "h", "a", "t">>,
    <<"w", "i", "t", "h">>,
    <<"f", "r", "o", "m">>,
    <<"h", "a", "v", "e">>,
    <<"w", "e", "r", "e">>,
    <<"t", "h", "e", "y">>,
    <<"a", "l", "s", "o">>,
    <<"j", "u", "s", "t">>,
    <<"v", "e", "r", "y">> }

NEGATORS ==
  { <<"n", "o", "t">>,
    <<"d", "o", "n", "'", "t">>,
    <<"d", "o", "e", "s", "n", "'", "t">>,
    <<"i", "s", "n", "'", "t">>,
    <<"a", "r", "e", "n", "'", "t">>,
    <<"w", "o", "n", "'", "t">>,
    <<"c", "a", "n", "'", "t">>,
    <<"c", "o", "u", "l", "d", "n", "'", "t">>,
    <<"w", "o", "u", "l", "d", "n", "'", "t">>,
    <<"n", "e", "v", "e", "r">>,
    <<"n", "o">>,
    <<"n", "o", "p", "e">>,
    <<"h", "a", "r", "d", "l", "y">>,
    <<"b", "a", "r", "e", "l", "y">> }

INTENSIFIERS ==
  { <<"v", "e", "r", "y">>,
    <<"r", "e", "a", "l", "l", "y">>,
    <<"e", "x", "t", "r", "e", "m", "e", "l", "y">>,
    <<"s", "u", "p", "e", "r">>,
    <<"i", "n", "c", "r", "e", "d", "i", "b", "l", "y">>,
    <<"h", "i", "g", "h", "l", "y">>,
    <<"d", "e", "e", "p", "l", "y">> }

WORDS_positive ==
  { <<<<"g", "r", "e", "a", "t">>, 2>>,
    <<<<"e", "x", "c", "e", "l", "l", "e", "n", "t">>, 3>>,
    <<<<"l", "o", "v", "e">>, 3>>,
    <<<<"a", "m", "a", "z", "i", "n", "g">>, 3>>,
    <<<<"h", "e", "l", "p", "f", "u", "l">>, 1>>,
    <<<<"a", "p", "p", "r", "e", "c", "i", "a", "t", "e">>, 2>>,
    <<<<"a", "w", "e", "s", "o", "m", "e">>, 2>>,
    <<<<"p", "e", "r", "f", "e", "c", "t">>, 3>>,
    <<<<"w", "o", "n", "d", "e", "r", "f", "u", "l">>, 3>>,
    <<<<"h", "a", "p", "p", "y">>, 2>>,
    <<<<"e", "x", "c", "i", "t", "e", "d">>, 1>>,
    <<<<"g", "o", "o", "d">>, 1>>,
    <<<<"n", "i", "c", "e">>, 1>>,
    <<<<"d", "e", "l", "i", "g", "h", "t", "e", "d">>, 2>> }

WORDS_negative ==
  { <<<<"b", "a", "d">>, 2>>,
    <<<<"t", "e", "r", "r", "i", "b", "l", "e">>, 3>>,
    <<<<"a", "w", "f", "u", "l">>, 3>>,
    <<<<"f", "r", "u", "s", "t", "r", "a", "t", "e", "d">>, 2>>,
    <<<<"a", "n", "g", "r", "y">>, 2>>,
    <<<<"a", "n", "n", "o", "y", "e", "d">>, 1>>,
    <<<<"c", "o", "n", "f", "u", "s", "e", "d">>, 1>>,
    <<<<"s", "t", "u", "c", "k">>, 1>>,
    <<<<"b", "r", "o", "k", "e", "n">>, 1>>,
    <<<<"f", "a", "i", "l", "i", "n", "g">>, 2>>,
    <<<<"d", "i", "s", "a", "p", "p", "o", "i", "n", "t", "e", "d">>, 2>>,
    <<<<"u", "n", "s", "a", "f", "e">>, 2>>,
    <<<<"w", "o", "r", "r", "i", "e", "d">>, 1>>,
    <<<<"c", "o", "n", "c", "e", "r", "n", "e", "d">>, 1>>,
    <<<<"p", "r", "o", "b", "l", "e", "m">>, 1>>,
    <<<<"i", "s", "s", "u", "e">>, 1>>,
    <<<<"t", "o", "x", "i", "c">>, 3>> }

WORDS_burnout ==
  { <<<<"e", "x", "h", "a", "u", "s", "t", "e", "d">>, 3>>,
    <<<<"b", "u", "r", "n", "o", "u", "t">>, 3>>,
    <<<<"o", "v", "e", "r", "w", "h", "e", "l", "m", "e", "d">>, 3>>,
    <<<<"t", "i", "r", "e", "d">>, 1>>,
    <<<<"d", "r", "a", "i", "n", "e", "d">>, 2>>,
    <<<<"o", "v", "e", "r", "l", "o", "a", "d", "e", "d">>, 2>>,
    <<<<"s", "t", "r", "e", "s", "s", "e", "d">>, 2>>,
    <<<<"s", "t", "r", "e", "s", "s">>, 2>> }

WORDS_attrition ==
  { <<<<"q", "u", "i", "t">>, 3>>,
    <<<<"q", "u", "i", "t", "t", "i", "n", "g">>, 3>>,
    <<<<"r", "e", "s", "i", "g", "n">>, 3>>,
    <<<<"r", "e", "s", "i", "g", "n", "i", "n", "g">>, 3>>,
    <<<<"r", "e", "s", "i", "g", "n", "e", "d">>, 3>>,
    <<<<"l", "e", "a", "v", "i", "n", "g">>, 2>>,
    <<<<"l", "e", "a", "v", "e">>, 1>>,
    <<<<"e", "x", "i", "t">>, 2>>,
    <<<<"d", "e", "p", "a", "r", "t", "u", "r", "e">>, 2>> }

WORDS_conflict ==
  { <<<<"f", "i", "g", "h", "t">>, 2>>,
    <<<<"b", "l", "a", "m", "e">>, 2>>,
    <<<<"d", "i", "s", "a", "g", "r", "e", "e">>, 1>>,
    <<<<"c", "o", "n", "f", "l", "i", "c", "t">>, 2>>,
    <<<<"t", "e", "n", "s", "i", "o", "n">>, 2>>,
    <<<<"h", "o", "s", "t", "i", "l", "e">>, 3>> }

WORDS_workload ==
  { <<<<"d", "e", "a", "d", "l", "i", "n", "e">>, 1>>,
    <<<<"p", "r", "e", "s", "s", "u", "r", "e">>, 1>>,
    <<<<"u", "r", "g", "e", "n", "t">>, 1>>,
    <<<<"o", "v", "e", "r", "l", "o", "a", "d", "e", "d">>, 2>>,
    <<<<"s", "w", "a", "m", "p", "e", "d">>, 2>>,
    <<<<"b", "a", "c", "k", "l", "o", "g">>, 1>> }

WORDS_tooling ==
  { <<<<"s", "l", "o", "w">>, 1>>,
    <<<<"b", "u", "g", "g", "y">>, 1>>,
    <<<<"b", "r", "o", "k", "e", "n">>, 1>>,
    <<<<"f", "a", "i", "l", "i", "n", "g">>, 2>>,
    <<<<"e", "r", "r", "o", "r">>, 1>>,
    <<<<"u", "n", "s", "t", "a", "b", "l", "e">>, 1>> }

WORDS_emotional ==
  { <<<<"a", "n", "g", "e", "r">>, 2>>,
    <<<<"f", "e", "a", "r">>, 2>>,
    <<<<"a", "n", "x", "i", "o", "u", "s">>, 2>>,
    <<<<"n", "e", "r", "v", "o", "u", "s">>, 1>>,
    <<<<"e", "x", "c", "i", "t", "e", "d">>, 1>>,
    <<<<"g", "r", "a", "t", "e", "f", "u", "l">>, 1>>,
    <<<<"t", "h", "a", "n", "k", "f", "u", "l">>, 1>> }

WORDS3_positive ==
  { <<<<"g", "r", "e", "a", "t">>, 2>>,
    <<<<"e", "x", "c", "e", "l", "l", "e", "n", "t">>, 3>>,
    <<<<"l", "o", "v", "e">>, 3>>,
    <<<<"a", "m", "a", "z", "i", "n", "g">>, 3>>,
    <<<<"h", "e", "l", "p", "f", "u", "l">>, 1>>,
    <<<<"e", "x", "c", "i", "t", "e", "d">>, 1>> }

WORDS3_negative ==
  { <<<<"b", "a", "d">>, 2>>,
    <<<<"t", "e", "r", "r", "i", "b", "l", "e">>, 3>>,
    <<<<"a", "w", "f", "u", "l">>, 3>>,
    <<<<"f", "r", "u", "s", "t", "r", "a", "t", "e", "d">>, 2>>,
    <<<<"a", "n", "g", "r", "y">>, 2>>,
    <<<<"b", "r", "o", "k", "e", "n">>, 1>> }

WORDS3_burnout ==
  { <<<<"e", "x", "h", "a", "u", "s", "t", "e", "d">>, 3>>,
    <<<<"o", "v", "e", "r", "w", "h", "e", "l", "m", "e", "d">>, 3>>,
    <<<<"s", "t", "r", "e", "s", "s", "e", "d">>, 2>>,
    <<<<"b", "u", "r", "n", "o", "u", "t">>, 3>> }

WORDS3_attrition ==
  { <<<<"q", "u", "i", "t">>, 3>>,
    <<<<"r", "e", "s", "i", "g", "n">>, 3>>,
    <<<<"l", "e", "a", "v", "i", "n", "g">>, 2>> }

WORDS3_conflict ==
  { <<<<"f", "i", "g", "h", "t">>, 2>>,
    <<<<"c", "o", "n", "f", "l", "i", "c", "t">>, 2>>,
    <<<<"h", "o", "s", "t", "i", "l", "e">>, 3>> }

WORDS3_workload ==
  { <<<<"o", "v", "e", "r", "l", "o", "a", "d", "e", "d">>, 2>>,
    <<<<"u", "r", "g", "e", "n", "t">>, 1>> }

WORDS3_tooling ==
  { <<<<"s", "l", "o", "w">>, 1>>,
    <<<<"b", "u", "g", "g", "y">>, 1>>,
    <<<<"f", "a", "i", "l", "i", "n", "g">>, 2>> }

(***************************************************************************)
(* classifySentiment.                                                       *)
(***************************************************************************)
Includes(s, w) ==
  \E i \in 1..(Len(s) - Len(w) + 1) : SubSeq(s, i, i + Len(w) - 1) = w

\* lexicon[token] of a lexicon written as a set of <<word, weight>>; 0 when the
\* word is not listed
Weight(lexicon, tok) ==
  IF \E p \in lexicon : p[1] = tok
    THEN (CHOOSE p \in lexicon : p[1] = tok)[2]
    ELSE 0

\* the lower-case tokens that name an inherited property of an object literal
ProtoKeys ==
  { <<"c", "o", "n", "s", "t", "r", "u", "c", "t", "o", "r">>,
    <<"_", "_", "p", "r", "o", "t", "o", "_", "_">> }

\* the label of each non-polarity category, in the order the code visits them
CategoryLabels ==
  <<"burnout_risk", "attrition_risk", "conflict_risk", "workload_pressure",
    "tooling_frustration", "emotional_signal">>
CategoryLexicon(r, k) ==
  IF r = "part_003"
    THEN CASE k = 1 -> WORDS3_burnout [] k = 2 -> WORDS3_attrition
           [] k = 3 -> WORDS3_conflict [] k = 4 -> WORDS3_workload
           [] k = 5 -> WORDS3_tooling [] OTHER -> {}
    ELSE CASE k = 1 -> WORDS_burnout [] k = 2 -> WORDS_attrition
           [] k = 3 -> WORDS_conflict [] k = 4 -> WORDS_workload
           [] k = 5 -> WORDS_tooling [] OTHER -> WORDS_emotional
PositiveLexicon(r) == IF r = "part_003" THEN WORDS3_positive ELSE WORDS_positive
NegativeLexicon(r) == IF r = "part_003" THEN WORDS3_negative ELSE WORDS_negative

\* the tokens classifySentiment scans
ClassifyTokens(r, s) ==
  CASE r = "part_000" ->
         NonEmpty(SplitWS(ReplaceAll(RE_Punct, ToLowerCase(s))))
    [] r = "part_002" ->
         NonEmpty(SplitWS(ReplaceAll(RE_PunctU, ToLowerCase(s))))
    [] OTHER -> SplitWS(ToLowerCase(s))

TokenAt(tokens, i) == IF i >= 1 /\ i <= Len(tokens) THEN tokens[i] ELSE <<>>
\* the intensifier multiplier of the token at i (part_000, part_002)
Multiplier(r, tokens, i) ==
  IF r \in {"part_000", "part_002"}
     /\ (TokenAt(tokens, i - 1) \in INTENSIFIERS
         \/ TokenAt(tokens, i - 2) \in INTENSIFIERS)
    THEN 2 ELSE 1
NegationWindow == 3
\* whether one of the NegationWindow tokens before i is a negator
Negated(r, tokens, i) ==
  /\ r \in {"part_000", "part_002"}
  /\ \E j \in 1..NegationWindow : TokenAt(tokens, i - j) \in NEGATORS

AddLabel(labels, l) ==
  IF \E i \in DOMAIN labels : labels[i] = l THEN labels ELSE Append(labels, l)

RECURSIVE AddCategoryLabels(_, _, _, _)
AddCategoryLabels(r, tok, labels, k) ==
  IF k > Len(CategoryLabels) THEN labels
  ELSE AddCategoryLabels(r, tok,
         IF (Weight(CategoryLexicon(r, k), tok) # 0 \/ tok \in ProtoKeys)
            /\ ~(r = "part_003" /\ k = 6)
           THEN AddLabel(labels, CategoryLabels[k]) ELSE labels,
         k + 1)

\* the scores and labels before the scan.  pos and neg are the two numbers;
\* nan records that they stopped being numbers (part_000, part_002: a weight
\* read from an inherited property times the multiplier); str records that
\* they became the strings spos and sneg (part_003: += of such a weight)
ZeroScores ==
  [pos |-> 0, neg |-> 0, nan |-> FALSE, str |-> FALSE, spos |-> <<>>,
   sneg |-> <<>>, labels |-> <<>>]

\* one token of the scan of part_000 and part_002
ClassifyToken(r, tokens, i, acc) ==
  LET tok == tokens[i]
      mult == Multiplier(r, tokens, i)
      flip == Negated(r, tokens, i)
      pw == Weight(PositiveLexicon(r), tok) * mult
      nw == Weight(NegativeLexicon(r), tok) * mult
      proto == tok \in ProtoKeys
  IN [acc EXCEPT !.pos = @ + (IF flip THEN nw ELSE pw),
                 !.neg = @ + (IF flip THEN pw ELSE nw),
                 !.nan = @ \/ proto,
                 !.labels = AddCategoryLabels(r, tok, @, 1)]

RECURSIVE Decimal(_)
\* the decimal digits of a number, as character codes 0..9
Decimal(n) == IF n < 10 THEN <<n>> ELSE Append(Decimal(n \div 10), n % 10)
\* the first character of String(value) of an inherited property, as a code
\* above the digits: "[object Object]" of __proto__, "function Object() ..."
\* of constructor
ProtoText(tok) ==
  IF tok = <<"_", "_", "p", "r", "o", "t", "o", "_", "_">> THEN <<91>> ELSE <<102>>

\* one token of the scan of part_003: pos += w and neg += w of a truthy w
ClassifyToken3(r, tokens, i, acc) ==
  LET tok == tokens[i]
      pw == Weight(PositiveLexicon(r), tok)
      nw == Weight(NegativeLexicon(r), tok)
      proto == tok \in ProtoKeys
      sp == IF acc.str THEN acc.spos ELSE Decimal(acc.pos)
      sn == IF acc.str THEN acc.sneg ELSE Decimal(acc.neg)
      labels == AddCategoryLabels(r, tok, acc.labels, 1)
  IN IF proto
       THEN [acc EXCEPT !.str = TRUE, !.spos = sp \o ProtoText(tok),
                        !.sneg = sn \o ProtoText(tok), !.labels = labels]
     ELSE IF acc.str
       THEN [acc EXCEPT !.spos = IF pw # 0 THEN Append(@, pw) ELSE @,
                        !.sneg = IF nw # 0 THEN Append(@, nw) ELSE @,
                        !.labels = labels]
     ELSE [acc EXCEPT !.pos = @ + pw, !.neg = @ + nw, !.labels = labels]

RECURSIVE ClassifyScan(_, _, _, _)
ClassifyScan(r, tokens, i, acc) ==
  IF i > Len(tokens) THEN acc
  ELSE ClassifyScan(r, tokens, i + 1,
                    IF r = "part_003" THEN ClassifyToken3(r, tokens, i, acc)
                    ELSE ClassifyToken(r, tokens, i, acc))

Greater(nan, a, b) == ~nan /\ a > b
RECURSIVE StringGreater(_, _)
\* a > b of two strings
StringGreater(a, b) ==
  IF a = <<>> THEN FALSE
  ELSE IF b = <<>> THEN TRUE
  ELSE IF Head(a) # Head(b) THEN Head(a) > Head(b)
  ELSE StringGreater(Tail(a), Tail(b))
\* negScore > posScore and posScore > negScore
NegGreater(acc) ==
  IF acc.str THEN StringGreater(acc.sneg, acc.spos)
  ELSE Greater(acc.nan, acc.neg, acc.pos)
PosGreater(acc) ==
  IF acc.str THEN StringGreater(acc.spos, acc.sneg)
  ELSE Greater(acc.nan, acc.pos, acc.neg)

\* the composite labels (part_000, part_002)
Escalate(r, acc) ==
  LET has(l) == \E i \in DOMAIN acc.labels : acc.labels[i] = l
      l1 == IF has("burnout_risk") /\ Greater(acc.nan, acc.neg, 2)
              THEN AddLabel(acc.labels, "wellbeing_concern") ELSE acc.labels
      l2 == IF has("attrition_risk") /\ Greater(acc.nan, acc.neg, 1)
              THEN AddLabel(l1, "retention_flag") ELSE l1
      l3 == IF has("conflict_risk") /\ Greater(acc.nan, acc.neg, 1)
              THEN AddLabel(l2, "team_dynamics_issue") ELSE l2
  IN IF r = "part_003" THEN acc.labels ELSE l3

Primary(acc) ==
  IF NegGreater(acc) THEN "negative"
  ELSE IF PosGreater(acc) THEN "positive"
  ELSE "neutral"

\* posScore, negScore and labels of classifySentiment(s) when the scan is over
Scores(r, s) ==
  IF r = "server"
    THEN LET lower == ToLowerCase(s)
         IN [ZeroScores EXCEPT
               !.neg = Cardinality({w \in negativeWords : Includes(lower, w)}),
               !.pos = Cardinality({w \in positiveWords : Includes(lower, w)})]
  ELSE IF s = <<>> /\ r \in {"part_002", "part_003"} THEN ZeroScores
  ELSE ClassifyScan(r, ClassifyTokens(r, s), 1, ZeroScores)

\* what classifySentiment returns from these scores: [kind, primary, labels];
\* server.js returns the bare polarity (kind "string"), the others an object
Classified(r, acc) ==
  IF r = "server"
    THEN [kind |-> "string", primary |-> Primary(acc), labels |-> <<>>]
    ELSE [kind |-> "object", primary |-> Primary(acc),
          labels |-> Escalate(r, acc)]

classifySentiment(r, s) == Classified(r, Scores(r, s))

(***************************************************************************)
(* Numbers.  A number is [nan, n]: n counts hundredths for the sample rate  *)
(* and the random draw, and units for the lengths.                          *)
(***************************************************************************)
NaN == [nan |-> TRUE, n |-> 0]
Number(n) == [nan |-> FALSE, n |-> n]
\* a > b, a <= b of JavaScript: false when either side is NaN
GT(a, b) == ~a.nan /\ ~b.nan /\ a.n > b.n
LE(a, b) == ~a.nan /\ ~b.nan /\ a.n <= b.n
\* Math.max(a, b), Math.min(a, b): NaN when either side is NaN
MathMax(a, b) == IF a.nan \/ b.nan THEN NaN ELSE IF a.n >= b.n THEN a ELSE b
MathMin(a, b) == IF a.nan \/ b.nan THEN NaN ELSE IF a.n <= b.n THEN a ELSE b

(***************************************************************************)
(* extractKeywords.                                                         *)
(***************************************************************************)
StopWords(r) == IF r = "part_003" THEN stopWords_part_003 ELSE stopWords
MinKeywordLen == 3
TopK == 5

\* every token counted, whatever its length and whether a stop word or not
KeywordTokens_unfiltered(r, s) == SplitWS(ToLowerCase(s))
\* the tokens counted, in text order
KeywordTokens(r, s) ==
  SelectSeq(SplitWS(ToLowerCase(s)),
            LAMBDA w : Len(w) > MinKeywordLen /\ w \notin StopWords(r))

Count(ws, w) == Cardinality({i \in DOMAIN ws : ws[i] = w})
RECURSIVE Distinct(_, _)
\* the distinct tokens in the order of their first occurrence
Distinct(ws, seen) ==
  IF ws = <<>> THEN seen
  ELSE Distinct(Tail(ws), AddLabel(seen, Head(ws)))

\* a key that an object keeps as an array index: a decimal numeral without a
\* leading zero (every such token of up to 9 digits is below 2^32 - 1)
IsIndexKey(w) ==
  /\ w # <<>> /\ Len(w) <= 9
  /\ \A i \in DOMAIN w : w[i] \in Digit
  /\ (Len(w) > 1 => w[1] # "0")
DigitValue(c) ==
  CASE c = "0" -> 0 [] c = "1" -> 1 [] c = "2" -> 2 [] c = "3" -> 3
    [] c = "4" -> 4 [] c = "5" -> 5 [] c = "6" -> 6 [] c = "7" -> 7
    [] c = "8" -> 8 [] OTHER -> 9
RECURSIVE NumeralValue(_)
NumeralValue(w) ==
  IF w = <<>> THEN 0
  ELSE 10 * NumeralValue(SubSeq(w, 1, Len(w) - 1)) + DigitValue(w[Len(w)])

RECURSIVE InsertBy(_, _, _)
\* x put into the sorted sequence xs after every element it does not precede
InsertBy(Before(_, _), xs, x) ==
  IF xs = <<>> THEN <<x>>
  ELSE IF Before(x, Head(xs)) THEN <<x>> \o xs
  ELSE <<Head(xs)>> \o InsertBy(Before, Tail(xs), x)
RECURSIVE StableSort(_, _, _)
StableSort(Before(_, _), xs, acc) ==
  IF xs = <<>> THEN acc
  ELSE StableSort(Before, Tail(xs), InsertBy(Before, acc, Head(xs)))

\* freq[w] after the loop: the number of occurrences of w; for "constructor"
\* the first freq[w] is the inherited function, (freq[w] || 0) + 1 is a string
\* and the count is no number
FreqOf(ws, w) ==
  IF w \in ProtoKeys THEN NaN ELSE Number(Count(ws, w))

\* Object.entries(freq): index keys in ascending numeric order, then the other
\* keys in insertion order; each entry is <<word, count>>.  An assignment
\* of a string to freq.__proto__ is ignored: that token is no key
FreqEntries(ws) ==
  LET keys == SelectSeq(Distinct(ws, <<>>),
                        LAMBDA w : w # <<"_", "_", "p", "r", "o", "t", "o", "_", "_">>)
      idx == SelectSeq(keys, IsIndexKey)
      rest == SelectSeq(keys, LAMBDA w : ~IsIndexKey(w))
      sortedIdx == StableSort(LAMBDA a, b : NumeralValue(a) < NumeralValue(b),
                              idx, <<>>)
      ordered == sortedIdx \o rest
  IN [i \in DOMAIN ordered |-> <<ordered[i], FreqOf(ws, ordered[i])>>]

\* .sort((a, b) => b[1] - a[1]): a goes before b when b[1] - a[1] < 0, which
\* is false when either count is no number
extractKeywords(r, s) ==
  IF s = <<>> /\ r \in {"part_002", "part_003"} THEN <<>>
  ELSE LET sorted == StableSort(LAMBDA a, b : GT(a[2], b[2]),
                                FreqEntries(KeywordTokens(r, s)), <<>>)
           top == Slice(sorted, TopK)
       IN [i \in DOMAIN top |-> top[i][1]]

RECURSIVE DigitsValue(_, _, _)
\* the value of the run of digits of s that starts at i, after acc
DigitsValue(s, i, acc) ==
  IF i > Len(s) \/ s[i] \notin Digit THEN acc
  ELSE DigitsValue(s, i + 1, 10 * acc + DigitValue(s[i]))
DigitRun(s, i) == RunLen(s, i, Cls(Digit, 0, 0), 0)

\* parseInt(s, 10): leading white space, a sign, then digits
parseInt(s0) ==
  LET s == TrimStart(s0)
      neg == s # <<>> /\ s[1] = "-"
      i == IF s # <<>> /\ s[1] \in {"-", "+"} THEN 2 ELSE 1
  IN IF DigitRun(s, i) = 0 THEN NaN
     ELSE Number((IF neg THEN -1 ELSE 1) * DigitsValue(s, i, 0))

\* parseFloat(s) in hundredths: a sign, digits, and a fraction of which the
\* first two digits count
parseFloat(s0) ==
  LET s == TrimStart(s0)
      neg == s # <<>> /\ s[1] = "-"
      i == IF s # <<>> /\ s[1] \in {"-", "+"} THEN 2 ELSE 1
      k == DigitRun(s, i)
      dot == i + k <= Len(s) /\ s[i + k] = "."
      f == IF dot THEN DigitRun(s, i + k + 1) ELSE 0
      d1 == IF f >= 1 THEN DigitValue(s[i + k + 1]) ELSE 0
      d2 == IF f >= 2 THEN DigitValue(s[i + k + 2]) ELSE 0
  IN IF k = 0 /\ f = 0 THEN NaN
     ELSE Number((IF neg THEN -1 ELSE 1)
                 * (100 * DigitsValue(s, i, 0) + 10 * d1 + d2))

(***************************************************************************)
(* The insights configuration, read from the environment at start-up.       *)
(***************************************************************************)
DefaultSampleRate(r) ==
  CASE r = "server" -> <<"0", ".", "2", "5">>
    [] r = "part_000" -> <<"1", ".", "0", "0">>
    [] OTHER -> <<"1", ".", "0">>
DefaultMaxChars == <<"1", "5", "0", "0">>
DefaultMinChars == <<"2", "0">>
\* X || "default" of an environment variable
EnvOr(x, dflt) == IF Truthy(x) THEN x.v ELSE dflt

INSIGHTS_SAMPLE(r, e) ==
  LET v == parseFloat(EnvOr(e.INSIGHTS_SAMPLE_RATE, DefaultSampleRate(r)))
      clamp == MathMin(Number(100), MathMax(Number(0), v))
  IN IF r \in {"server", "part_000"}
       THEN (IF v.nan THEN parseFloat(DefaultSampleRate(r)) ELSE clamp)
       ELSE clamp

INSIGHTS_MAX_LEN(r, e) ==
  LET v == parseInt(EnvOr(e.INSIGHTS_MAX_CHARS, DefaultMaxChars))
  IN IF r \in {"server", "part_000"} /\ (v.nan \/ v.n <= 0)
       THEN parseInt(DefaultMaxChars) ELSE v

INSIGHTS_MIN_LEN(r, e) ==
  LET v == parseInt(EnvOr(e.INSIGHTS_MIN_CHARS_FOR_EMBEDDING, DefaultMinChars))
  IN IF r \in {"server", "part_000"} /\ (v.nan \/ v.n <= 0)
       THEN parseInt(DefaultMinChars) ELSE v

(***************************************************************************)
(* Events.  One record carries what Bolt hands to a listener: the message   *)
(* (or the command), and the team ids of body and context.                  *)
(***************************************************************************)
T_report == << "b","u","i","l","d"," ","i","s"," ","b","r","o","k","e","n",
               ","," ","<","@","U","1",">"," ","h","e","l","p","!" >>
T_greeting == << "h","i"," ","a","l","l" >>
T_digits == << "1","2"," ","3","4"," ","5","6"," ","7","8"," ","9","0"," ",
               "1","2"," ","3","4" >>
T_emoji == << ":","a",":"," ",":","b",":"," ",":","c",":"," ",":","d",":" >>
T_marks == << "!","!","!"," ","?","?","?"," ",".",".","."," ","-","-","-" >>
T_letters == << "a"," ","b"," ","c"," ","d" >>
Texts ==
  {Str(T_report), Str(T_greeting), Str(T_digits), Str(T_emoji), Str(T_marks),
   Str(T_letters), Undef, Num(<<"5">>)}

BaseMessage ==
  [kind |-> "message", channel_type |-> Sym("channel"),
   channel |-> Str(<<"C", "1">>), bot_id |-> Undef, subtype |-> Undef,
   text |-> Str(T_report), user |-> Sym("U1"), ts |-> Sym("ts1"),
   thread_ts |-> Undef, team |-> Sym("T1"), source_team |-> Undef,
   event_context |-> Undef, team_id |-> Undef, body_team_id |-> Undef,
   ctx_teamId |-> Sym("T1"), action_id |-> Undef, action_value |-> Undef]

\* where a message comes from: a public channel, a direct message, a private
\* channel (old and new style ids), and events without channel_type
Origins ==
  {<<Sym("im"), Str(<<"D", "1">>)>>, <<Sym("group"), Str(<<"G", "1">>)>>,
   <<Sym("group"), Str(<<"C", "2">>)>>, <<Sym("mpim"), Str(<<"G", "2">>)>>,
   <<Undef, Str(<<"C", "1">>)>>, <<Undef, Str(<<"D", "1">>)>>,
   <<Undef, Undef>>}
Subtypes ==
  {Sym("bot_message"), Sym("channel_join"), Sym("message_changed"),
   Sym("file_share")}

Messages ==
  {[BaseMessage EXCEPT !.text = t] : t \in Texts}
  \cup {[BaseMessage EXCEPT !.channel_type = o[1], !.channel = o[2]] :
          o \in Origins}
  \cup {[BaseMessage EXCEPT !.subtype = s] : s \in Subtypes}
  \cup {[BaseMessage EXCEPT !.bot_id = Sym("B1")],
        [BaseMessage EXCEPT !.user = Sym("U2"), !.ts = Sym("ts2"),
                            !.thread_ts = Sym("ts0")],
        [BaseMessage EXCEPT !.team = Sym("T2"), !.ctx_teamId = Undef],
        [BaseMessage EXCEPT !.team = Undef],
        [BaseMessage EXCEPT !.team = Undef, !.ctx_teamId = Undef]}

Q_leave == << "l","e","a","v","e","?" >>
BaseCommand ==
  [kind |-> "command", channel_type |-> Undef, channel |-> Undef,
   bot_id |-> Undef, subtype |-> Undef, text |-> Str(Q_leave),
   user |-> Sym("U1"), ts |-> Undef, thread_ts |-> Undef, team |-> Undef,
   source_team |-> Undef, event_context |-> Undef, team_id |-> Sym("T1"),
   body_team_id |-> Sym("T1"), ctx_teamId |-> Sym("T1"), action_id |-> Undef,
   action_value |-> Undef]
Commands ==
  {[BaseCommand EXCEPT !.text = q, !.team_id = t[1], !.body_team_id = t[2],
                       !.ctx_teamId = t[2]] :
     q \in {Str(Q_leave), Str(<<" ", " ">>), Str(<<>>), Undef},
     t \in {<<Sym("T1"), Sym("T1")>>, <<Undef, Sym("T1")>>, <<Undef, Undef>>}}

NoEvent ==
  [kind |-> "none", channel_type |-> Undef, channel |-> Undef,
   bot_id |-> Undef, subtype |-> Undef, text |-> Undef, user |-> Undef,
   ts |-> Undef, thread_ts |-> Undef, team |-> Undef, source_team |-> Undef,
   event_context |-> Undef, team_id |-> Undef, body_team_id |-> Undef,
   ctx_teamId |-> Undef, action_id |-> Undef, action_value |-> Undef]

\* a press of a feedback button under an answer: action_value is
\* body.actions[0].value, team is body.team.id, channel is body.channel.id,
\* ts and text are those of body.message
BaseAction ==
  [NoEvent EXCEPT !.kind = "action", !.action_id = Sym("feedback_up"),
                  !.action_value = Sym("qa1"), !.user = Sym("U1"),
                  !.team = Sym("T1"), !.ctx_teamId = Sym("T1"),
                  !.channel = Str(<<"C", "1">>), !.ts = Sym("ts1"),
                  !.text = Sym("answer")]
ButtonPresses ==
  {BaseAction,
   [BaseAction EXCEPT !.action_id = Sym("feedback_down")],
   [BaseAction EXCEPT !.action_value = Undef],
   [BaseAction EXCEPT !.team = Undef],
   [BaseAction EXCEPT !.team = Undef, !.ctx_teamId = Undef],
   [BaseAction EXCEPT !.channel = Undef],
   [BaseAction EXCEPT !.ts = Undef, !.text = Undef]}

\* the environments the server is started in
Environments ==
  [INSIGHTS_SAMPLE_RATE : {Undef, Str(<<"0">>), Str(<<"0", ".", "5">>)},
   INSIGHTS_MAX_CHARS : {Undef, Str(<<"1", "2">>), Str(<<"-", "5">>)},
   INSIGHTS_MIN_CHARS_FOR_EMBEDDING : {Undef, Str(<<"5">>)},
   LOVABLE_API_KEY : {Undef, Sym("key")}]

\* Math.random(), in hundredths
Draws == {Number(0), Number(30), Number(70)}

\* command?.team_id || message?.team || message?.source_team ||
\* body?.team_id || context?.teamId || event_context.split("-")[1] || null
resolveTeamId(ev) ==
  LET msg(f) == IF ev.kind = "message" THEN f ELSE Undef
      cmd(f) == IF ev.kind = "command" THEN f ELSE Undef
      ctxPart == IF Truthy(msg(ev.event_context))
                   THEN (IF Len(ev.event_context.v) >= 2
                           THEN Sym(ev.event_context.v[2]) ELSE Undef)
                   ELSE Undef
  IN OrElse(cmd(ev.team_id),
       OrElse(msg(ev.team),
         OrElse(msg(ev.source_team),
           OrElse(ev.body_team_id, OrElse(ev.ctx_teamId, ctxPart)))))

(***************************************************************************)
(* processInsightsSignal up to its first await: the gates, in the order of  *)
(* the code.  The result names the gate the message left by ("pass" when it *)
(* left by none, "error" when a step threw into the catch) and carries the  *)
(* sanitized text.                                                          *)
(***************************************************************************)
\* text.slice(0, n)
SliceTo(s, n) ==
  IF n >= 0 THEN Slice(s, n)
  ELSE IF Len(s) + n > 0 THEN SubSeq(s, 1, Len(s) + n) ELSE <<>>
\* if (text.length > INSIGHTS_MAX_LEN) text = text.slice(0, INSIGHTS_MAX_LEN)
Truncate(s, max) == IF GT(Number(Len(s)), max) THEN SliceTo(s, max.n) ELSE s
\* sanitized.length < INSIGHTS_MIN_LEN
TooShort(s, min) == ~min.nan /\ Len(s) < min.n

\* a gate whose early return is missing: the message goes on as if it passed
Left_fallthrough(gate) == [exit |-> "pass", sanitized |-> <<"x">>]
\* if (...) { console.log(...); return; }: the task ends at the gate
Left(gate) == [exit |-> gate, sanitized |-> <<>>]

\* the gates on the sanitized text
GatesOnSanitized(r, e, sanitized, noise) ==
  IF sanitized = <<>> THEN Left("empty-sanitized")
  ELSE IF TooShort(sanitized, INSIGHTS_MIN_LEN(r, e)) THEN Left("too-short")
  ELSE IF noise /\ isNumericOrDateOnly(r, sanitized) THEN Left("noise")
  ELSE [exit |-> "pass", sanitized |-> sanitized]

\* the gates before the text is cut and sanitized: the gate the message
\* leaves by, or "text"
GatesBeforeText(r, e, m, draw) ==
  CASE r = "server" ->
         IF LE(INSIGHTS_SAMPLE(r, e), Number(0)) THEN "sampled-out"
         ELSE IF GT(draw, INSIGHTS_SAMPLE(r, e)) THEN "sampled-out"
         ELSE IF ~isEligibleForInsights(r, m) THEN "ineligible"
         ELSE IF ~IsStr(m.text) \/ Trim(m.text.v) = <<>> THEN "empty"
         ELSE "text"
    [] r = "part_000" ->
         IF LE(INSIGHTS_SAMPLE(r, e), Number(0)) \/ GT(draw, INSIGHTS_SAMPLE(r, e))
           THEN "sampled-out"
         ELSE IF isEligibleThrows(r, m) THEN "error"
         ELSE IF ~isEligibleForInsights(r, m) THEN "ineligible"
         ELSE IF Trim(m.text.v) = <<>> THEN "empty"
         ELSE "text"
    [] r = "part_002" ->
         IF ~Truthy(m.text) THEN "empty"
         ELSE IF ~IsStr(m.text) THEN "empty-sanitized"
         ELSE "text"
    [] r = "part_003" ->
         IF GT(draw, INSIGHTS_SAMPLE(r, e)) THEN "sampled-out"
         ELSE IF isEligibleThrows(r, m) THEN "error"
         ELSE IF ~isEligibleForInsights(r, m) THEN "ineligible"
         ELSE "text"

\* let rawText = ...: part_000 trims it
RawText(r, m) == IF r = "part_000" THEN Trim(m.text.v) ELSE m.text.v

GatesFromText(r, e, m, before) ==
  IF before # "text" THEN Left(before)
  ELSE GatesOnSanitized(r, e,
         sanitizeTextForInsights(r,
           Str(Truncate(RawText(r, m), INSIGHTS_MAX_LEN(r, e)))),
         r # "part_002")

InsightsGates(r, e, m, draw) ==
  GatesFromText(r, e, m, GatesBeforeText(r, e, m, draw))

\* the body of the request to insights-ingest; JSON.stringify leaves out a
\* field that is undefined
IngestBody(r, tenantId, sanitized, embedding) ==
  [tenant_id |-> tenantId,
   content_hash |-> hashMessage(sanitized),
   sanitized_text |-> IF r = "server" THEN Undef ELSE Str(sanitized),
   embedding |-> IF r = "server" THEN embedding ELSE Undef,
   sentiment |-> classifySentiment(r, sanitized),
   keywords |-> extractKeywords(r, sanitized),
   source |-> "slack"]

(***************************************************************************)
(* The server.  Each event Bolt delivers gets a listener invocation h[e];   *)
(* a message may start an insights task ins[e]; out[e] is the sequence of   *)
(* the requests the invocation and its tasks have issued, in order.         *)
(***************************************************************************)
MaxEvents == 1

VARIABLES rev, env, h, ins, out, call
vars == <<rev, env, h, ins, out, call>>
\* the events of a run: each has its listener h[e], its insights task ins[e]
\* and the requests out[e] issued for it
Events == DOMAIN h

\* no answer of slack-intervention has been read
NoDecision ==
  [kind |-> "none", should_respond |-> FALSE, reply_text |-> Undef,
   respond_mode |-> Undef, sources |-> <<>>]
\* a listener before its event: iv is the intervention answer it read, posted
\* the outcome (delivered or not) of each reply it posted, feedback the
\* outcome of its feedback submission
Idle ==
  [ev |-> NoEvent, pc |-> "idle", teamId |-> Undef, tenant_id |-> Undef,
   term |-> "running", timer |-> "none", status |-> "none", guard |-> "none",
   iv |-> NoDecision, posted |-> <<>>, feedback |-> "none"]
NoTask ==
  [pc |-> "none", exit |-> "none", sanitized |-> <<>>, draw |-> NaN,
   settled |-> "none"]

\* no helper function has been called on its own
NoCall ==
  [fn |-> "none", arg |-> Undef, threw |-> FALSE, result |-> Undef,
   again |-> Undef, scores |-> ZeroScores]

Init ==
  /\ rev \in Revisions
  /\ env \in Environments
  /\ h = [e \in 1 .. MaxEvents |-> Idle]
  /\ ins = [e \in 1 .. MaxEvents |-> NoTask]
  /\ out = [e \in 1 .. MaxEvents |-> <<>>]
  /\ call = NoCall

Request(to, by, body) == [to |-> to, by |-> by, body |-> body]
\* the listener's function has returned or thrown
Ended(hr, how) == [hr EXCEPT !.pc = "done", !.term = how]

\* events are taken in order of arrival
Arrives(e) ==
  /\ h[e].pc = "idle"
  /\ \A d \in Events : d < e => h[d].pc # "idle"

\* a callback runs only when no listener is in the middle of a synchronous
\* stretch of its code (JavaScript runs each stretch to completion)
LoopFree == \A e \in Events : h[e].pc \notin {"spawn", "intervene"}

(***************************************************************************)
(* Message events.                                                          *)
(***************************************************************************)
\* the listener's own filter
MessageFiltered(r, m) ==
  CASE r \in {"server", "part_000", "part_005", "part_006"} ->
         Truthy(m.subtype) \/ Truthy(m.bot_id) \/ m.channel_type # Sym("channel")
    [] r = "part_003" -> Truthy(m.bot_id) \/ Truthy(m.subtype)
    [] r = "part_002" -> FALSE

MessageTeamId(r, m) ==
  CASE r = "part_006" -> m.team
    [] r = "part_002" -> OrElse(m.team, m.ctx_teamId)
    [] OTHER -> resolveTeamId(m)

TenantLookup(by, teamId) ==
  Request("tenant-lookup", by, [slack_team_id |-> teamId])

MessageDeliver(e, m) ==
  /\ Arrives(e)
  /\ LoopFree
  /\ LET teamId == MessageTeamId(rev, m)
         hr == [h[e] EXCEPT !.ev = m]
     IN IF MessageFiltered(rev, m) THEN
          /\ h' = [h EXCEPT ![e] = Ended(hr, "returned")]
          /\ out' = out
        ELSE IF rev # "part_006" /\ ~Truthy(teamId) THEN
          /\ h' = [h EXCEPT ![e] = Ended([hr EXCEPT !.teamId = teamId], "returned")]
          /\ out' = out
        ELSE IF rev = "part_005" THEN
          /\ h' = [h EXCEPT ![e] = [hr EXCEPT !.pc = "awaitAuth", !.teamId = teamId]]
          /\ out' = [out EXCEPT ![e] = Append(@, Request("auth.test", "handler", <<>>))]
        ELSE
          /\ h' = [h EXCEPT ![e] = [hr EXCEPT !.pc = "awaitTenant", !.teamId = teamId]]
          /\ out' = [out EXCEPT ![e] = Append(@, TenantLookup("handler", teamId))]
  /\ UNCHANGED <<call, rev, env, ins>>

\* auth.test() settles; its failure is caught and logged
AuthReply(e) ==
  /\ LoopFree
  /\ h[e].pc = "awaitAuth"
  /\ IF rev = "part_005" THEN
       /\ h' = [h EXCEPT ![e].pc = "awaitTenant"]
       /\ out' = [out EXCEPT ![e] = Append(@, TenantLookup("handler", h[e].teamId))]
     ELSE
       /\ h' = [h EXCEPT ![e].pc = "spawn"]
       /\ out' = out
  /\ UNCHANGED <<call, rev, env, ins>>

\* what the tenant lookup answers: a tenant, a 2xx body without tenant_id, a
\* non-2xx status, or no answer at all (network error, unreadable body)
TenantReplies == {"tenant", "no-tenant", "non2xx", "error"}
\* the tenant the lookup service has for a workspace
TenantOf(teamId) ==
  IF teamId = Sym("T2") THEN Sym("tenant-2") ELSE Sym("tenant-1")
TenantId(reply, teamId) == IF reply = "tenant" THEN TenantOf(teamId) ELSE Undef
\* a tenant id kept in a variable of the module, which every listener reads
Resolved_shared(hs, e, tenant) ==
  [d \in DOMAIN hs |-> [hs[d] EXCEPT !.tenant_id = tenant]]
\* const { tenant_id } = await getTenantAndSlackClient(...): a constant of
\* this run of the listener
Resolved(hs, e, tenant) == [hs EXCEPT ![e].tenant_id = tenant]
\* the lookup throws (getTenantAndSlackClient) or makes the listener return
TenantFails(r, reply) ==
  \/ reply \in {"non2xx", "error"}
  \/ reply = "no-tenant" /\ r \in {"server", "part_000", "part_002"}

TenantReply(e, reply) ==
  /\ LoopFree
  /\ h[e].pc = "awaitTenant"
  /\ IF TenantFails(rev, reply) THEN
       h' = [h EXCEPT ![e] = Ended(@, "returned")]
     ELSE
       h' = [Resolved(h, e, TenantId(reply, h[e].teamId)) EXCEPT
                      ![e].pc = CASE rev = "server" -> "awaitAuth"
                                  [] rev \in {"part_005", "part_006"} -> "intervene"
                                  [] OTHER -> "spawn"]
  /\ out' = IF ~TenantFails(rev, reply) /\ rev = "server"
              THEN [out EXCEPT ![e] = Append(@, Request("auth.test", "handler", <<>>))]
              ELSE out
  /\ UNCHANGED <<call, rev, env, ins>>

(***************************************************************************)
(* The insights task.                                                       *)
(***************************************************************************)
\* whether processInsightsSignal calls Math.random()
Draws_random(r, e) ==
  CASE r \in {"server", "part_000"} -> ~LE(INSIGHTS_SAMPLE(r, e), Number(0))
    [] r = "part_003" -> TRUE
    [] OTHER -> FALSE

\* processInsightsSignal without its try/catch
Settles_uncaught(r, threw) == IF threw THEN "rejected" ELSE "resolved"
\* the promise of processInsightsSignal: every step is inside try/catch
Settles(r, threw) == "resolved"

\* a listener that awaits processInsightsSignal
InsightsAwaited_awaiting(r) == TRUE
\* the listener calls processInsightsSignal without awaiting it
InsightsAwaited(r) == FALSE

EmbeddingRequest(sanitized) ==
  Request("embeddings", "insights",
          [input |-> sanitized, model |-> "text-embedding-3-small"])
IngestRequest(r, tenantId, sanitized, embedding) ==
  Request("insights-ingest", "insights",
          IngestBody(r, tenantId, sanitized, embedding))

\* the task after the gates g: it ends, or issues its first request
Started(r, e, tenantId, draw, g) ==
  LET task == [pc |-> "done", exit |-> g.exit, sanitized |-> g.sanitized,
               draw |-> IF Draws_random(r, e) THEN draw ELSE NaN,
               settled |-> Settles(r, g.exit = "error")]
  IN IF g.exit # "pass" THEN [task |-> task, requests |-> <<>>]
     ELSE IF r = "server" /\ ~Truthy(e.LOVABLE_API_KEY) THEN
       [task |-> [task EXCEPT !.exit = "no-embedding"], requests |-> <<>>]
     ELSE IF r = "server" THEN
       [task |-> [task EXCEPT !.pc = "awaitEmbedding", !.settled = "pending"],
        requests |-> <<EmbeddingRequest(g.sanitized)>>]
     ELSE
       [task |-> [task EXCEPT !.pc = "awaitIngest", !.settled = "pending"],
        requests |-> <<IngestRequest(r, tenantId, g.sanitized, Undef)>>]

Spawned(e, s) ==
  /\ ins' = [ins EXCEPT ![e] = s.task]
  /\ out' = [out EXCEPT ![e] = @ \o s.requests]

\* the listener starts the task; the task runs to its first await
SpawnInsights(e, draw) ==
  /\ h[e].pc = "spawn"
  /\ Draws_random(rev, env) \/ draw = Number(0)
  /\ Spawned(e, Started(rev, env, h[e].tenant_id, draw,
                        InsightsGates(rev, env, h[e].ev, draw)))
  /\ h' = [h EXCEPT ![e] = IF rev \in InterventionRevs
                             THEN [@ EXCEPT !.pc = "intervene"]
                             ELSE Ended(@, "returned")]
  /\ UNCHANGED <<call, rev, env>>

\* the embeddings API answers: a vector, a 2xx body without one, a non-2xx
\* status, or nothing (network error, unreadable body)
EmbeddingReplies == {"vector", "no-vector", "non2xx", "error"}

EmbeddingReply(e, reply) ==
  /\ LoopFree
  /\ ins[e].pc = "awaitEmbedding"
  /\ IF reply = "vector" THEN
       /\ ins' = [ins EXCEPT ![e].pc = "awaitIngest"]
       /\ out' = [out EXCEPT ![e] =
                    Append(@, IngestRequest(rev, h[e].tenant_id, ins[e].sanitized,
                                            Sym("vector")))]
     ELSE
       /\ ins' = [ins EXCEPT ![e].pc = "done", ![e].exit = "no-embedding",
                             ![e].settled = Settles(rev, FALSE)]
       /\ out' = out
  /\ UNCHANGED <<call, rev, env, h>>

\* insights-ingest answers 2xx or non-2xx, or the request fails
IngestReplies == {"ok", "non2xx", "error"}

IngestReply(e, reply) ==
  /\ LoopFree
  /\ ins[e].pc = "awaitIngest"
  /\ ins' = [ins EXCEPT ![e].pc = "done",
                        ![e].exit = IF reply = "ok" THEN "published"
                                    ELSE "publish-failed",
                        ![e].settled = Settles(rev, reply = "error")]
  /\ UNCHANGED <<call, rev, env, h, out>>

(***************************************************************************)
(* The intervention path of the message listener.                           *)
(***************************************************************************)
InterventionRequest(hr) ==
  Request("slack-intervention", "handler",
          [tenant_id |-> hr.tenant_id, slack_team_id |-> hr.teamId,
           message_text |-> hr.ev.text,
           metadata |-> [channel_id |-> hr.ev.channel,
                         thread_ts |-> hr.ev.thread_ts,
                         user_id |-> hr.ev.user, message_ts |-> hr.ev.ts]])

IssueIntervention(e) ==
  /\ h[e].pc = "intervene"
  /\ InsightsAwaited(rev) => ins[e].pc \in {"none", "done"}
  /\ h' = [h EXCEPT ![e].pc = "awaitIntervention"]
  /\ out' = [out EXCEPT ![e] = Append(@, InterventionRequest(h[e]))]
  /\ UNCHANGED <<call, rev, env, ins>>

\* what slack-intervention answers: nothing (network error), a body that is
\* not JSON, the JSON value null, or a decision
Decision(should, text, mode, sources) ==
  [kind |-> "json", should_respond |-> should, reply_text |-> text,
   respond_mode |-> mode, sources |-> sources]
InterventionReplies ==
  {[Decision(FALSE, Undef, Undef, <<>>) EXCEPT !.kind = k] :
     k \in {"error", "not-json", "null"}}
  \cup {Decision(FALSE, Sym("advice"), Sym("thread_reply"), <<>>),
        Decision(TRUE, Undef, Sym("thread_reply"), <<>>),
        Decision(TRUE, Str(<<>>), Sym("ephemeral"), <<>>),
        Decision(TRUE, Sym("advice"), Sym("ephemeral"), <<>>),
        Decision(TRUE, Sym("advice"), Sym("thread_reply"),
                 <<[title |-> "Handbook", url |-> Sym("https://h")],
                   [title |-> "Policy", url |-> Undef]>>),
        Decision(TRUE, Sym("advice"), Sym("channel_message"), <<>>),
        Decision(TRUE, Sym("advice"), Undef, <<>>)}

\* `${reply_text}${sourcesText}`, as the sequence of its parts
FullText(iv) ==
  iv.reply_text.v
  \o (IF Len(iv.sources) > 0 THEN <<"*Sources:*">> ELSE <<>>)
  \o [i \in DOMAIN iv.sources |->
        IF Truthy(iv.sources[i].url)
          THEN <<"link", iv.sources[i].url.v[1], iv.sources[i].title>>
          ELSE <<"plain", iv.sources[i].title>>]

\* the Slack call that posts the reply
Post(method, m, text, user, thread) ==
  Request("slack", "handler",
          [method |-> method, channel |-> m.channel, user |-> user,
           text |-> text, thread_ts |-> thread])
ThreadOf(m) == OrElse(m.thread_ts, m.ts)
InterventionPost(m, iv) ==
  CASE iv.respond_mode = Sym("ephemeral") ->
         Post("chat.postEphemeral", m, FullText(iv), m.user, Undef)
    [] iv.respond_mode = Sym("thread_reply") ->
         Post("chat.postMessage", m, FullText(iv), Undef, ThreadOf(m))
    [] OTHER -> Post("chat.postMessage", m, FullText(iv), Undef, Undef)

\* a listener that replies whenever the answer has a reply_text
InterventionSilent_unasked(r, iv) ==
  \/ iv.kind # "json"
  \/ ~Truthy(iv.reply_text)
\* part_006 reads the body with json(): a body that is not JSON throws
InterventionSilent(r, iv) ==
  \/ iv.kind # "json"
  \/ ~iv.should_respond
  \/ ~Truthy(iv.reply_text)

InterventionReply(e, iv) ==
  /\ LoopFree
  /\ h[e].pc = "awaitIntervention"
  /\ IF InterventionSilent(rev, iv) THEN
       /\ h' = [h EXCEPT ![e] = Ended([@ EXCEPT !.iv = iv], "returned")]
       /\ out' = out
     ELSE
       /\ h' = [h EXCEPT ![e].pc = "awaitPost", ![e].iv = iv]
       /\ out' = [out EXCEPT ![e] = Append(@, InterventionPost(h[e].ev, iv))]
  /\ UNCHANGED <<call, rev, env, ins>>

\* a failed postEphemeral falls back to a message in the thread
HasFallback(r) == r \in {"server", "part_000", "part_005"}

\* the latest request of a log that `by` issued
LastBy(log, by) ==
  log[CHOOSE i \in DOMAIN log :
        /\ log[i].by = by
        /\ \A j \in DOMAIN log : j > i => log[j].by # by]

PostReply(e, ok) ==
  /\ LoopFree
  /\ h[e].pc = "awaitPost"
  /\ LET last == LastBy(out[e], "handler")
     IN IF ~ok /\ HasFallback(rev) /\ last.body.method = "chat.postEphemeral" THEN
          /\ h' = [h EXCEPT ![e].pc = "awaitFallback",
                            ![e].posted = Append(@, ok)]
          /\ out' = [out EXCEPT ![e] = Append(@,
                       Post("chat.postMessage", h[e].ev, last.body.text, Undef,
                            ThreadOf(h[e].ev)))]
        ELSE
          /\ h' = [h EXCEPT ![e] =
                     Ended([@ EXCEPT !.posted = Append(@, ok)], "returned")]
          /\ out' = out
  /\ UNCHANGED <<call, rev, env, ins>>

FallbackReply(e, ok) ==
  /\ LoopFree
  /\ h[e].pc = "awaitFallback"
  /\ h' = [h EXCEPT ![e] =
              Ended([@ EXCEPT !.posted = Append(@, ok)], "returned")]
  /\ UNCHANGED <<call, rev, env, ins, out>>

NextMessage ==
  \E e \in Events :
    \/ \E m \in Messages : MessageDeliver(e, m)
    \/ AuthReply(e)
    \/ \E reply \in TenantReplies : TenantReply(e, reply)
    \/ \E draw \in Draws : SpawnInsights(e, draw)
    \/ \E reply \in EmbeddingReplies : EmbeddingReply(e, reply)
    \/ \E reply \in IngestReplies : IngestReply(e, reply)
    \/ IssueIntervention(e)
    \/ \E iv \in InterventionReplies : InterventionReply(e, iv)
    \/ \E ok \in BOOLEAN : PostReply(e, ok)
    \/ \E ok \in BOOLEAN : FallbackReply(e, ok)

(***************************************************************************)
(* The /ask command.                                                        *)
(***************************************************************************)
\* respond(...): what the user is shown
Respond(kind, answer) ==
  Request("respond", "ask", [kind |-> kind, answer |-> answer])

\* a listener that answers before it acknowledges
AskOpening_late(r) ==
  <<Respond("working", Undef), Request("ack", "ask", <<>>)>>
\* the calls the listener issues before its first await completes
AskOpening(r) == <<Request("ack", "ask", <<>>)>>

\* the heavy work runs in an async function the listener does not await
Detached(r) == r \in {"server", "part_000", "part_002", "part_006"}
\* a rejection outside every try block: of the listener, or of the detached task
Unguarded(r) == IF Detached(r) THEN "task" ELSE "handler"

Step(hr, log) == [h |-> hr, out |-> log]
Waiting(hr, pc, guard, log) ==
  Step([hr EXCEPT !.pc = pc, !.guard = guard], log)

\* the tenant lookup of the command (part_002 resolves the team here, and
\* getTenantAndSlackClient throws on a missing one)
StartLookup(r, hr, log) ==
  LET teamId == CASE r = "part_002" -> resolveTeamId(hr.ev)
                  [] r = "part_006" -> hr.ev.team_id
                  [] OTHER -> hr.teamId
      hr2 == [hr EXCEPT !.teamId = teamId]
  IN IF r = "part_002" /\ ~Truthy(teamId)
       THEN Waiting(hr2, "awaitLast", Unguarded(r),
                    Append(log, Respond("error", Undef)))
       ELSE Waiting(hr2, "awaitAskTenant", "try",
                    Append(log, TenantLookup("ask", teamId)))

\* const question = (command.text || "").trim(); if (!question) ...
Question(c) == Trim(OrElse(c.text, Str(<<>>)).v)
ChecksQuestion(r) == r \in {"server", "part_000", "part_005", "part_006"}

\* after "Working on it...": the question, then the lookup
AfterWorking(r, hr, log) ==
  IF ChecksQuestion(r) /\ Question(hr.ev) = <<>>
    THEN Waiting(hr, "awaitLast", Unguarded(r), Append(log, Respond("usage", Undef)))
    ELSE StartLookup(r, hr, log)

\* after ack(): the workspace, then "Working on it..."
ChecksTeam(r) == r \in {"server", "part_000", "part_003", "part_005"}
AfterAck(r, hr, log) ==
  LET teamId == IF ChecksTeam(r) THEN resolveTeamId(hr.ev) ELSE Undef
      hr2 == [hr EXCEPT !.teamId = teamId]
  IN IF ChecksTeam(r) /\ ~Truthy(teamId)
       THEN Waiting(hr2, "awaitLast", "handler",
                    Append(log, Respond("no-workspace", Undef)))
     ELSE IF r = "part_002" THEN AfterWorking(r, hr2, log)
     ELSE Waiting(hr2, "awaitWorking", "handler",
                  Append(log, Respond("working", Undef)))

AskDeliver(e, c) ==
  /\ LoopFree
  /\ Arrives(e)
  /\ h' = [h EXCEPT ![e] = [@ EXCEPT !.ev = c, !.pc = "awaitAck"]]
  /\ out' = [out EXCEPT ![e] = @ \o AskOpening(rev)]
  /\ UNCHANGED <<call, rev, env, ins>>

\* ack() settles; safeAck of part_002 catches its failure
AckReply(e, ok) ==
  /\ LoopFree
  /\ h[e].pc = "awaitAck"
  /\ LET s == IF ~ok /\ rev # "part_002"
                THEN Step(Ended(h[e], "rejected"), out[e])
                ELSE AfterAck(rev, h[e], out[e])
     IN /\ h' = [h EXCEPT ![e] = s.h]
        /\ out' = [out EXCEPT ![e] = s.out]
  /\ UNCHANGED <<call, rev, env, ins>>

WorkingReply(e, ok) ==
  /\ LoopFree
  /\ h[e].pc = "awaitWorking"
  /\ LET s == IF ~ok THEN Step(Ended(h[e], "rejected"), out[e])
                ELSE AfterWorking(rev, h[e], out[e])
     IN /\ h' = [h EXCEPT ![e] = s.h]
        /\ out' = [out EXCEPT ![e] = s.out]
  /\ UNCHANGED <<call, rev, env, ins>>

\* the request to the retrieval service, and the 10 s timer that aborts it
RagHasTimer(r) == r \in {"server", "part_000", "part_005", "part_006"}
RagRequest(r, hr) ==
  Request("rag", "ask",
          [tenant_id |-> hr.tenant_id,
           question |-> CASE r = "part_002" -> hr.ev.text
                          [] r = "part_003" -> hr.ev.text
                          [] OTHER -> Str(Question(hr.ev)),
           source |-> "slack"])

AskTenantReply(e, reply) ==
  /\ LoopFree
  /\ h[e].pc = "awaitAskTenant"
  /\ IF TenantFails(rev, reply) THEN
       /\ h' = [h EXCEPT ![e].pc = "awaitLast", ![e].guard = Unguarded(rev)]
       /\ out' = [out EXCEPT ![e] = Append(@, Respond("error", Undef))]
     ELSE
       LET hr == [h[e] EXCEPT !.tenant_id = TenantId(reply, h[e].teamId),
                              !.pc = "awaitRagHeaders",
                              !.timer = IF RagHasTimer(rev) THEN "armed" ELSE "none"]
       IN /\ h' = [h EXCEPT ![e] = hr]
          /\ out' = [out EXCEPT ![e] = Append(@, RagRequest(rev, hr))]
  /\ UNCHANGED <<call, rev, env, ins>>

\* clearTimeout(timeout)
Cleared(t) == IF t = "armed" THEN "cleared" ELSE t

\* fetch(RAG_QUERY_URL) rejected: the inner catch of server.js, part_000 and
\* part_006 answers "did not respond"; elsewhere the outer catch answers
RagInnerCatch(r) == r \in {"server", "part_000", "part_006"}
RagFailed(r, hr, log) ==
  IF RagInnerCatch(r)
    THEN Waiting([hr EXCEPT !.timer = Cleared(@)], "awaitLast", "try",
                 Append(log, Respond("rag-unavailable", Undef)))
    ELSE Waiting(hr, "awaitLast", Unguarded(r), Append(log, Respond("error", Undef)))

\* the response headers arrive
RagStatuses == {"ok", "non2xx"}
RagChecksOk(r) == r \in {"part_002", "part_003"}

RagHeaders(e, status) ==
  /\ LoopFree
  /\ h[e].pc = "awaitRagHeaders"
  /\ LET hr == [h[e] EXCEPT !.timer = Cleared(@), !.status = status]
         s == IF RagChecksOk(rev) /\ status = "non2xx"
                THEN Waiting(hr, "awaitLast",
                             IF rev = "part_003" THEN "handler" ELSE "try",
                             Append(out[e], Respond("rag-failed", Undef)))
                ELSE Waiting(hr, "awaitRagBody", "try", out[e])
     IN /\ h' = [h EXCEPT ![e] = s.h]
        /\ out' = [out EXCEPT ![e] = s.out]
  /\ UNCHANGED <<call, rev, env, ins>>

\* the request fails before any headers (network error)
RagError(e) ==
  /\ LoopFree
  /\ h[e].pc = "awaitRagHeaders"
  /\ LET s == RagFailed(rev, h[e], out[e])
     IN /\ h' = [h EXCEPT ![e] = s.h]
        /\ out' = [out EXCEPT ![e] = s.out]
  /\ UNCHANGED <<call, rev, env, ins>>

\* the timer fires: controller.abort() rejects the pending fetch
RagTimeout(e) ==
  /\ LoopFree
  /\ h[e].pc = "awaitRagHeaders"
  /\ h[e].timer = "armed"
  /\ LET s == RagFailed(rev, [h[e] EXCEPT !.timer = "fired"], out[e])
     IN /\ h' = [h EXCEPT ![e] = s.h]
        /\ out' = [out EXCEPT ![e] = s.out]
  /\ UNCHANGED <<call, rev, env, ins>>

\* the body the retrieval service sends: unreadable as JSON, the JSON value
\* null, or an object
RagBody(kind, answer, text) == [kind |-> kind, answer |-> answer, text |-> text]
RagBodies ==
  {RagBody("invalid", Undef, Undef), RagBody("null", Undef, Undef),
   RagBody("json", Str(<<"Leave is 25 days.", "Sources:", "Handbook">>), Undef),
   RagBody("json", Undef, Undef),
   RagBody("json", Undef, Sym("upstream error text"))}

\* answer.replace(/Source[s]?:[\s\S]*/gi, "").trim(), on the parts of a text
RECURSIVE StripSources(_)
StripSources(a) ==
  IF a = <<>> \/ a[1] \in {"Sources:", "Source:"} THEN <<>>
  ELSE <<a[1]>> \o StripSources(Tail(a))

NoAnswerFound == Sym("No answer found.")
\* reading the body, or building the answer from it, throws
BodyThrows(r, b) ==
  \/ b.kind = "invalid" /\ r # "part_002"
  \/ b.kind = "null" /\ r # "part_002"
Answer(r, b) ==
  CASE r = "part_002" -> IF b.kind = "json" THEN OrElse(b.answer, NoAnswerFound)
                         ELSE NoAnswerFound
    [] r = "part_003" -> b.answer
    [] OTHER -> Str(StripSources(OrElse(b.answer, OrElse(b.text, NoAnswerFound)).v))

RagBodyReply(e, b) ==
  /\ LoopFree
  /\ h[e].pc = "awaitRagBody"
  /\ LET s == IF b.kind = "invalid" /\ RagInnerCatch(rev)
                THEN RagFailed(rev, h[e], out[e])
              ELSE IF BodyThrows(rev, b)
                THEN Waiting(h[e], "awaitLast", Unguarded(rev),
                             Append(out[e], Respond("error", Undef)))
              ELSE Waiting(h[e], "awaitLast", "try",
                           Append(out[e], Respond("answer", Answer(rev, b))))
     IN /\ h' = [h EXCEPT ![e] = s.h]
        /\ out' = [out EXCEPT ![e] = s.out]
  /\ UNCHANGED <<call, rev, env, ins>>

\* the last respond settles; a failure inside the try block is answered from
\* the catch block, a failure outside rejects
LastReply(e, ok) ==
  /\ LoopFree
  /\ h[e].pc = "awaitLast"
  /\ LET hr == [h[e] EXCEPT !.posted = Append(@, ok)]
     IN IF ok THEN
          /\ h' = [h EXCEPT ![e] = Ended(hr, "returned")]
          /\ out' = out
        ELSE IF h[e].guard = "try" THEN
          /\ h' = [h EXCEPT ![e] = [hr EXCEPT !.guard = Unguarded(rev)]]
          /\ out' = [out EXCEPT ![e] = Append(@, Respond("error", Undef))]
        ELSE
          /\ h' = [h EXCEPT ![e] =
                     Ended(hr, IF h[e].guard = "task" THEN "unhandled"
                               ELSE "rejected")]
          /\ out' = out
  /\ UNCHANGED <<call, rev, env, ins>>

NextAsk ==
  \E e \in Events :
    \/ \E c \in Commands : AskDeliver(e, c)
    \/ \E ok \in BOOLEAN : AckReply(e, ok)
    \/ \E ok \in BOOLEAN : WorkingReply(e, ok)
    \/ \E reply \in TenantReplies : AskTenantReply(e, reply)
    \/ \E status \in RagStatuses : RagHeaders(e, status)
    \/ RagError(e)
    \/ RagTimeout(e)
    \/ \E b \in RagBodies : RagBodyReply(e, b)
    \/ \E ok \in BOOLEAN : LastReply(e, ok)

(***************************************************************************)
(* The feedback buttons.                                                    *)
(***************************************************************************)
\* the versions that register listeners for the feedback buttons, and those
\* whose listeners call handleFeedbackAction
ActionRevs == {"server", "part_000", "part_002", "part_003"}
FeedbackRevs == {"server", "part_000"}

ActionDeliver(e, a) ==
  /\ LoopFree
  /\ Arrives(e)
  /\ rev \in ActionRevs
  /\ h' = [h EXCEPT ![e] = [@ EXCEPT !.ev = a, !.pc = "awaitActionAck"]]
  /\ out' = [out EXCEPT ![e] = Append(@, Request("ack", "action", <<>>))]
  /\ UNCHANGED <<call, rev, env, ins>>

\* body.team?.id || context?.teamId
FeedbackTeamId(a) == OrElse(a.team, a.ctx_teamId)

\* ack() settles, and handleFeedbackAction runs up to its first await
ActionAckReply(e, ok) ==
  /\ LoopFree
  /\ h[e].pc = "awaitActionAck"
  /\ LET a == h[e].ev
         teamId == FeedbackTeamId(a)
     IN IF ~ok /\ rev # "part_002" THEN
          /\ h' = [h EXCEPT ![e] = Ended(@, "rejected")]
          /\ out' = out
        ELSE IF rev \notin FeedbackRevs
                \/ ~Truthy(a.action_value) \/ ~Truthy(teamId) THEN
          /\ h' = [h EXCEPT ![e] = Ended(@, "returned")]
          /\ out' = out
        ELSE
          /\ h' = [h EXCEPT ![e].pc = "awaitFeedbackTenant",
                            ![e].teamId = teamId]
          /\ out' = [out EXCEPT ![e] = Append(@, TenantLookup("action", teamId))]
  /\ UNCHANGED <<call, rev, env, ins>>

\* "feedback_up" and "feedback_down" pass "up" and "down"
FeedbackOf(a) == IF a.action_id = Sym("feedback_up") THEN "up" ELSE "down"
FeedbackRequest(hr) ==
  Request("feedback", "action",
          [qa_log_id |-> hr.ev.action_value, feedback |-> FeedbackOf(hr.ev),
           source |-> "slack", tenant_id |-> hr.tenant_id,
           slack_user_id |-> hr.ev.user])

\* getTenantAndSlackClient settles; its failure is caught and logged
FeedbackTenantReply(e, reply) ==
  /\ LoopFree
  /\ h[e].pc = "awaitFeedbackTenant"
  /\ IF TenantFails(rev, reply) THEN
       /\ h' = [h EXCEPT ![e] = Ended(@, "returned")]
       /\ out' = out
     ELSE
       LET hr == [h[e] EXCEPT !.tenant_id = TenantId(reply, h[e].teamId),
                              !.pc = "awaitFeedback"]
       IN /\ h' = [h EXCEPT ![e] = hr]
          /\ out' = [out EXCEPT ![e] = Append(@, FeedbackRequest(hr))]
  /\ UNCHANGED <<call, rev, env, ins>>

\* chat.update: the blocks of the message without its "actions" blocks, and
\* the context block that thanks the user
ThanksUpdate(a) ==
  Request("chat.update", "action",
          [channel |-> a.channel, ts |-> a.ts, blocks |-> "thanks",
           text |-> OrElse(a.text, Sym("Answer updated"))])

\* what the feedback function answers
FeedbackStatuses == {"ok", "non2xx", "error"}
\* the statuses after which handleFeedbackAction goes on to update the
\* message: only a rejected fetch leaves the function
FeedbackGoesOn(status) == status # "error"

FeedbackReply(e, status) ==
  /\ LoopFree
  /\ h[e].pc = "awaitFeedback"
  /\ LET a == h[e].ev
         hr == [h[e] EXCEPT !.feedback = status]
     IN IF FeedbackGoesOn(status) /\ Truthy(a.channel) /\ Truthy(a.ts) THEN
          /\ h' = [h EXCEPT ![e] = [hr EXCEPT !.pc = "awaitUpdate"]]
          /\ out' = [out EXCEPT ![e] = Append(@, ThanksUpdate(a))]
        ELSE
          /\ h' = [h EXCEPT ![e] = Ended(hr, "returned")]
          /\ out' = out
  /\ UNCHANGED <<call, rev, env, ins>>

\* chat.update settles; its failure is caught and logged
UpdateReply(e, ok) ==
  /\ LoopFree
  /\ h[e].pc = "awaitUpdate"
  /\ h' = [h EXCEPT ![e] = Ended([@ EXCEPT !.posted = Append(@, ok)], "returned")]
  /\ UNCHANGED <<call, rev, env, ins, out>>

NextAction ==
  \E e \in Events :
    \/ \E a \in ButtonPresses : ActionDeliver(e, a)
    \/ \E ok \in BOOLEAN : ActionAckReply(e, ok)
    \/ \E reply \in TenantReplies : FeedbackTenantReply(e, reply)
    \/ \E status \in FeedbackStatuses : FeedbackReply(e, status)
    \/ \E ok \in BOOLEAN : UpdateReply(e, ok)

Next == NextMessage \/ NextAsk \/ NextAction
Spec == Init /\ [][Next]_vars

(***************************************************************************)
(* The helper functions on their own: one call of one function on one of   *)
(* the inputs below, with what it returned (or that it threw).             *)
(***************************************************************************)
\* digit groups with a comma between them
S_grouped ==
  <<"1", "2", "3", ",", "4", "5", "6">>
\* digit runs attached to letters and to an underscore
S_attached ==
  <<"a", "b", "c", "1", "2", "3", "4", "5", " ", "i", "d", "_", "9", "8",
    "7", "6", "5">>
\* a phone number
S_phone ==
  <<"c", "a", "l", "l", " ", "5", "5", "5", "-", "1", "2", "3", "-", "4",
    "5", "6", "7">>
\* a date
S_date ==
  <<"d", "u", "e", " ", "1", "2", "/", "0", "5", "/", "2", "0", "2", "4">>
\* letters outside ASCII
S_accent ==
  <<"c", "a", "f", "e-acute", " ", "a", "n-tilde", "o">>
\* an underscore
S_snake ==
  <<"a", "_", "b", " ", "c">>
\* mentions, a URL, an e-mail address
S_markup ==
  <<"<", "@", "U", "1", ">", " ", "<", "#", "C", "1", ">", " ", "h", "t",
    "t", "p", ":", "/", "/", "x", ".", "i", "o", " ", "a", "@", "b", ".",
    "c", "o", " ", "h", "i">>
\* white space to collapse
S_spaces ==
  <<" ", " ", "a", " ", "\t", " ", "b", "\n">>
\* six distinct long tokens, one of them twice
K_many ==
  <<"a", "l", "p", "h", "a", " ", "b", "r", "a", "v", "o", " ", "c", "h",
    "a", "r", "l", "i", "e", " ", "d", "e", "l", "t", "a", " ", "e", "c",
    "h", "o", "e", "s", " ", "f", "o", "x", "t", "r", "o", "t", " ", "A",
    "l", "p", "h", "a">>
\* stop words, short words, a repeated token
K_stop ==
  <<"t", "h", "i", "s", " ", "v", "e", "r", "y", " ", "B", "u", "i", "l",
    "d", " ", "b", "u", "i", "l", "d", " ", "t", "h", "e", " ", "c", "o",
    "n", "s", "t", "r", "u", "c", "t", "o", "r">>
\* tokens an object keeps as array indices
K_index ==
  <<"2", "0", "2", "4", " ", "1", "0", "0", "0", " ", "z", "e", "t", "a">>
\* a token that names an inherited property of the frequency table, before a
\* token that occurs twice
K_proto ==
  <<"c", "o", "n", "s", "t", "r", "u", "c", "t", "o", "r", " ", "b", "u", "i",
    "l", "d", " ", "b", "u", "i", "l", "d">>
\* a negated positive word
G_notgood ==
  <<"n", "o", "t", " ", "g", "o", "o", "d", " ", "a", "t", " ", "a", "l",
    "l">>

SanitizeInputs ==
  {Str(S_grouped), Str(S_attached), Str(S_phone), Str(S_date), Str(S_accent),
   Str(S_snake), Str(S_markup), Str(S_spaces), Str(T_report), Str(T_digits),
   Str(T_marks), Str(<<>>), Undef, Num(<<"5">>)}
\* a positive word two tokens after a negator
G_nothappy ==
  <<"I", " ", "a", "m", " ", "n", "o", "t", " ", "h", "a", "p", "p", "y">>
\* two negative words after an intensifier
G_veryangry ==
  <<"v", "e", "r", "y", " ", "a", "n", "g", "r", "y", " ", "a", "n", "d",
  " ", "f", "r", "u", "s", "t", "r", "a", "t", "e", "d">>
\* the same without the intensifier
G_angry ==
  <<"a", "n", "g", "r", "y", " ", "a", "n", "d", " ", "f", "r", "u", "s",
  "t", "r", "a", "t", "e", "d">>
\* a positive word and the name of an inherited property
G_proto ==
  <<"g", "r", "e", "a", "t", " ", "c", "o", "n", "s", "t", "r", "u", "c",
  "t", "o", "r">>
\* the name of another inherited property before two polarity words
G_proto3 ==
  <<"_", "_", "p", "r", "o", "t", "o", "_", "_", " ", "b", "a", "d", " ",
  "g", "r", "e", "a", "t">>
\* a burnout word and a negative word of weight 3
G_burnout ==
  <<"e", "x", "h", "a", "u", "s", "t", "e", "d", " ", "a", "n", "d", " ",
  "t", "e", "r", "r", "i", "b", "l", "e">>
\* an attrition word and a negated negative word
G_quit ==
  <<"n", "e", "v", "e", "r", " ", "b", "a", "d", " ", "s", "o", " ", "i",
  " ", "q", "u", "i", "t">>
\* a positive word after a contraction
G_dont ==
  <<"I", " ", "d", "o", "n", "'", "t", " ", "l", "o", "v", "e", " ", "i",
  "t">>
\* a positive word two tokens after another contraction
G_cant ==
  <<"w", "e", " ", "c", "a", "n", "'", "t", " ", "b", "e", " ", "h", "a",
  "p", "p", "y">>
\* a word of two lexicons and a conflict word
G_broken ==
  <<"b", "r", "o", "k", "e", "n", " ", "f", "i", "g", "h", "t">>
ClassifyTexts ==
  {T_report, G_notgood, K_many, S_accent, <<>>, G_nothappy, G_veryangry,
   G_angry, G_proto, G_proto3, G_burnout, G_quit, G_dont, G_cant, G_broken}
ClassifyInputs == {Str(t) : t \in ClassifyTexts} \cup {Undef, Num(<<"5">>)}
KeywordInputs ==
  {Str(K_many), Str(K_stop), Str(K_index), Str(K_proto), Str(T_report),
   Str(T_letters), Str(S_spaces), Str(<<>>)}
\* what isEligibleForInsights is called with: messages, and values that are
\* no message at all
EligibilityInputs == Messages \cup {Undef, Num(<<"5">>)}
IsMessage(x) == "kind" \in DOMAIN x

\* what a deployment may put into one configuration variable
RateSettings ==
  {Undef, Str(<<>>), Str(<<"a", "b", "c">>), Str(<<"-", "1">>), Str(<<"0">>),
   Str(<<"0", ".", "5">>), Str(<<"2">>)}
LengthSettings ==
  {Undef, Str(<<>>), Str(<<"a", "b", "c">>), Str(<<"-", "5">>), Str(<<"0">>),
   Str(<<"1", "2">>)}
BaseEnvironment ==
  [INSIGHTS_SAMPLE_RATE |-> Undef, INSIGHTS_MAX_CHARS |-> Undef,
   INSIGHTS_MIN_CHARS_FOR_EMBEDDING |-> Undef, LOVABLE_API_KEY |-> Undef]
\* the environments that set one of the three variables
ConfigEnvironments ==
  {[BaseEnvironment EXCEPT !.INSIGHTS_SAMPLE_RATE = v] : v \in RateSettings}
  \cup {[BaseEnvironment EXCEPT !.INSIGHTS_MAX_CHARS = v] : v \in LengthSettings}
  \cup {[BaseEnvironment EXCEPT !.INSIGHTS_MIN_CHARS_FOR_EMBEDDING = v] :
          v \in LengthSettings}

Returned(fn, arg, result, again) ==
  [fn |-> fn, arg |-> arg, threw |-> FALSE, result |-> result, again |-> again,
   scores |-> ZeroScores]
Threw(fn, arg) ==
  [fn |-> fn, arg |-> arg, threw |-> TRUE, result |-> Undef, again |-> Undef,
   scores |-> ZeroScores]
Calls(c) ==
  /\ call' = c
  /\ UNCHANGED <<rev, env, h, ins, out>>

\* sanitizeTextForInsights(x), and sanitizeTextForInsights of what it returned
SanitizedTwice(r, x, first) ==
  Returned("sanitizeTextForInsights", x, first,
           sanitizeTextForInsights(r, Str(first)))
CallSanitize(x) ==
  /\ call = NoCall
  /\ Calls(IF sanitizeThrows(rev, x) THEN Threw("sanitizeTextForInsights", x)
           ELSE SanitizedTwice(rev, x, sanitizeTextForInsights(rev, x)))

\* isEligibleForInsights(x): a value that is no message object is rejected by
\* the first test (!message, typeof message !== "object", !message?.channel)
CallIsEligible(x) ==
  /\ call = NoCall /\ rev # "part_002"
  /\ Calls(IF ~IsMessage(x) THEN Returned("isEligibleForInsights", x, FALSE, Undef)
           ELSE IF isEligibleThrows(rev, x) THEN Threw("isEligibleForInsights", x)
           ELSE Returned("isEligibleForInsights", x,
                         isEligibleForInsights(rev, x), Undef))

\* whether classifySentiment(x) throws: server.js and part_000 call
\* x.toLowerCase() unguarded, part_003 guards only falsy values
classifyThrows(r, x) ==
  CASE r \in {"server", "part_000"} -> ~IsStr(x)
    [] r = "part_003" -> Truthy(x) /\ ~IsStr(x)
    [] OTHER -> FALSE
\* the neutral result of the guards of part_002 and part_003
Neutral == [kind |-> "object", primary |-> "neutral", labels |-> <<>>]
\* classifySentiment(x) of a string x returned, its scores being acc
Classifies(x, acc) ==
  [Returned("classifySentiment", x, Classified(rev, acc), Undef)
     EXCEPT !.scores = acc]
CallClassify(x) ==
  /\ call = NoCall
  /\ Calls(IF classifyThrows(rev, x) THEN Threw("classifySentiment", x)
           ELSE IF ~IsStr(x)
             THEN Returned("classifySentiment", x, Neutral, Undef)
           ELSE Classifies(x, Scores(rev, x.v)))

\* processInsightsSignal's classifySentiment(sanitized) of a message text x
CallClassifySanitized(x) ==
  /\ call = NoCall
  /\ LET acc == Scores(rev, sanitizeTextForInsights(rev, x))
     IN Calls([Returned("classifySanitized", x, Classified(rev, acc), Undef)
                 EXCEPT !.scores = acc])

CallExtractKeywords(x) ==
  /\ call = NoCall
  /\ Calls(Returned("extractKeywords", x, extractKeywords(rev, x.v), Undef))

\* the three configuration constants as the module computes them at start-up
ReadConfig ==
  /\ call = NoCall
  /\ Calls(Returned("config", Undef,
                    [INSIGHTS_SAMPLE |-> INSIGHTS_SAMPLE(rev, env),
                     INSIGHTS_MAX_LEN |-> INSIGHTS_MAX_LEN(rev, env),
                     INSIGHTS_MIN_LEN |-> INSIGHTS_MIN_LEN(rev, env)], Undef))

FnInit ==
  /\ rev \in InsightsRevs
  /\ env \in ConfigEnvironments
  /\ h = [e \in 1 .. MaxEvents |-> Idle]
  /\ ins = [e \in 1 .. MaxEvents |-> NoTask]
  /\ out = [e \in 1 .. MaxEvents |-> <<>>]
  /\ call = NoCall

FnNext ==
  \/ \E x \in SanitizeInputs : CallSanitize(x)
  \/ \E x \in EligibilityInputs : CallIsEligible(x)
  \/ \E x \in ClassifyInputs : CallClassify(x)
  \/ \E t \in ClassifyTexts : CallClassifySanitized(Str(t))
  \/ \E x \in KeywordInputs : CallExtractKeywords(x)
  \/ ReadConfig

FnSpec == FnInit /\ [][FnNext]_vars

(***************************************************************************)
(* Two messages whose listeners run at the same time.                       *)
(***************************************************************************)
MaxPair == 2
\* the message of each event: they differ in workspace, author, time and text
PairMessage(e) ==
  IF e = 1 THEN BaseMessage
  ELSE [BaseMessage EXCEPT !.team = Sym("T2"), !.ctx_teamId = Sym("T2"),
                           !.user = Sym("U2"), !.ts = Sym("ts2"),
                           !.text = Str(G_veryangry)]
PairEnvironment ==
  [INSIGHTS_SAMPLE_RATE |-> Undef, INSIGHTS_MAX_CHARS |-> Undef,
   INSIGHTS_MIN_CHARS_FOR_EMBEDDING |-> Undef, LOVABLE_API_KEY |-> Sym("key")]
PairInterventions ==
  {Decision(FALSE, Undef, Undef, <<>>),
   Decision(TRUE, Sym("advice"), Sym("ephemeral"), <<>>)}

PairInit ==
  /\ rev \in Revisions
  /\ env = PairEnvironment
  /\ h = [e \in 1 .. MaxPair |-> Idle]
  /\ ins = [e \in 1 .. MaxPair |-> NoTask]
  /\ out = [e \in 1 .. MaxPair |-> <<>>]
  /\ call = NoCall

PairNext ==
  \E e \in Events :
    \/ MessageDeliver(e, PairMessage(e))
    \/ AuthReply(e)
    \/ \E reply \in {"tenant", "error"} : TenantReply(e, reply)
    \/ SpawnInsights(e, Number(0))
    \/ EmbeddingReply(e, "vector")
    \/ IngestReply(e, "ok")
    \/ IssueIntervention(e)
    \/ \E iv \in PairInterventions : InterventionReply(e, iv)
    \/ \E ok \in BOOLEAN : PostReply(e, ok)
    \/ FallbackReply(e, TRUE)

PairSpec == PairInit /\ [][PairNext]_vars

(***************************************************************************)
(* Properties.                                                              *)
(***************************************************************************)
\* the requests of event e that go to `to`
RequestsTo(e, to) == SelectSeq(out[e], LAMBDA q : q.to = to)
\* the requests of event e that the insights task issued
InsightsRequests(e) == SelectSeq(out[e], LAMBDA q : q.by = "insights")
\* processInsightsSignal has been called for event e
InsightsRan(e) == ins[e].pc # "none"
ZeroRate == INSIGHTS_SAMPLE(rev, env) = Number(0)

\* C1: with a sample rate of 0 processInsightsSignal makes no outbound
\* request, whatever Math.random() returns (exactly 0 included).
C1_ZeroRateNoRequest ==
  \A e \in Events :
    ZeroRate /\ InsightsRan(e) => InsightsRequests(e) = <<>>

\* a direct message, a private channel, a bot message or a system subtype
Excluded(m) ==
  \/ m.channel_type \in {Sym("im"), Sym("mpim"), Sym("group")}
  \/ IsStr(m.channel) /\ ~StartsWith(m.channel.v, "C")
  \/ Truthy(m.bot_id)
  \/ m.subtype \in SystemSubtypes \cup {Sym("bot_message")}

\* C2: a message from a direct message, a private channel, a bot, or with a
\* system subtype never causes a request to insights-ingest, whichever
\* listener received it.
C2_ExcludedNeverIngested ==
  \A e \in Events :
    h[e].ev.kind = "message" /\ Excluded(h[e].ev)
      => RequestsTo(e, "insights-ingest") = <<>>

\* the first gate, in the order sampling, eligibility, truncation and
\* sanitization, length, noise, that a message fails ("pass" when none)
FailedGate(r, e, m, drawn) ==
  IF LE(INSIGHTS_SAMPLE(r, e), Number(0)) \/ GT(drawn, INSIGHTS_SAMPLE(r, e))
    THEN "sampled-out"
  ELSE IF isEligibleThrows(r, m) \/ ~isEligibleForInsights(r, m) THEN "ineligible"
  ELSE GatesOnSanitized(r, e,
         sanitizeTextForInsights(r,
           Str(Truncate(Trim(m.text.v), INSIGHTS_MAX_LEN(r, e)))), TRUE).exit

\* the versions of processInsightsSignal that have all the gates
GatedRevs == {"server", "part_000"}

\* C3: in server.js and part_000, a message that fails any gate, the gates
\* taken in the order sampling, eligibility, truncation, sanitization, length,
\* noise, makes processInsightsSignal return normally (its promise resolves)
\* without any outbound request.
C3_FailedGateNoRequest ==
  \A e \in Events :
    /\ rev \in GatedRevs /\ InsightsRan(e)
    /\ FailedGate(rev, env, h[e].ev, ins[e].draw) # "pass"
    => /\ InsightsRequests(e) = <<>>
       /\ ins[e].pc = "done" /\ ins[e].settled = "resolved"

\* C3 witness: a sampled, eligible message whose sanitized text is shorter
\* than the minimum has left processInsightsSignal at the length gate.
C3_Witness ==
  \E e \in Events :
    /\ rev \in GatedRevs /\ InsightsRan(e)
    /\ FailedGate(rev, env, h[e].ev, ins[e].draw) = "too-short"
    /\ ins[e].pc = "done" /\ ins[e].exit = "too-short"
    /\ InsightsRequests(e) = <<>>

\* the body the ingest request is to carry for a tenant and a sanitized text
AnonymousSignal(r, tenantId, sanitized) ==
  [tenant_id |-> tenantId, content_hash |-> hashMessage(sanitized),
   sanitized_text |-> Str(sanitized), embedding |-> Undef,
   sentiment |-> classifySentiment(r, sanitized),
   keywords |-> extractKeywords(r, sanitized), source |-> "slack"]

\* C4: the body of the ingest request is determined by the tenant id and the
\* sanitized text: tenant id, digest of the sanitized text, the sanitized
\* text, sentiment, keywords and source, and nothing else.
C4_IngestBodyAnonymous ==
  \A e \in Events :
    \A i \in DOMAIN out[e] :
      out[e][i].to = "insights-ingest"
        => out[e][i].body = AnonymousSignal(rev, h[e].tenant_id, ins[e].sanitized)

\* C5: once the listener has started the insights task, it issues the
\* intervention request at once and handles the answer, whatever the state or
\* the outcome of the insights task: it never waits for that task.
C5_InterventionIndependent ==
  \A e \in Events :
    /\ h[e].pc = "intervene" => ENABLED IssueIntervention(e)
    /\ h[e].pc = "awaitIntervention" /\ LoopFree
         => \A iv \in InterventionReplies : ENABLED InterventionReply(e, iv)
    /\ InsightsRan(e) /\ rev \in InterventionRevs /\ h[e].pc # "intervene"
         => Len(RequestsTo(e, "slack-intervention")) = 1

\* C5 witness: the intervention answer has been handled (a reply is being
\* posted) while the insights task is still waiting for insights-ingest, and
\* the listener has ended while the insights task had failed.
C5_Witness ==
  \E e \in Events :
    /\ Len(RequestsTo(e, "slack-intervention")) = 1
    /\ \/ h[e].pc = "awaitPost" /\ ins[e].pc = "awaitIngest"
       \/ h[e].pc = "done" /\ ins[e].exit \in {"publish-failed", "error"}

\* C6: a failure inside the insights task stays inside: its promise never
\* rejects, it posts nothing to Slack or to the user, and it sends at most
\* one request to insights-ingest.
C6_InsightsFailuresSwallowed ==
  \A e \in Events :
    /\ ins[e].settled # "rejected"
    /\ ins[e].pc = "done" => ins[e].settled = "resolved"
    /\ \A i \in DOMAIN out[e] :
         out[e][i].by = "insights" => out[e][i].to \in {"embeddings", "insights-ingest"}
    /\ Len(RequestsTo(e, "insights-ingest")) <= 1

\* C6 witness: the task ended after a failed publish, or after a step threw.
C6_Witness ==
  \E e \in Events :
    /\ ins[e].pc = "done" /\ ins[e].settled = "resolved"
    /\ \/ ins[e].exit = "publish-failed" /\ Len(RequestsTo(e, "insights-ingest")) = 1
       \/ ins[e].exit = "error"

\* C7: every message that passes the gates is published: the task ends in
\* published or publish-failed after exactly one request to insights-ingest;
\* whether an embedding is available does not matter.
C7_PassedGatesPublished ==
  \A e \in Events :
    ins[e].pc = "done" /\ ins[e].sanitized # <<>>
      => /\ ins[e].exit \in {"published", "publish-failed"}
         /\ Len(RequestsTo(e, "insights-ingest")) = 1

\* C8: the first call of the /ask listener is ack(): no tenant lookup, no
\* retrieval and no respond is issued before it, whatever the workspace id and
\* the question are.
C8_AckFirst ==
  \A e \in Events :
    h[e].ev.kind = "command"
      => /\ out[e] # <<>>
         /\ out[e][1].to = "ack"
         /\ \A i \in DOMAIN out[e] : i > 1 => out[e][i].to # "ack"

\* C8 witness: a command without a workspace id, or with an empty question,
\* has been answered after the ack.
C8_Witness ==
  \E e \in Events :
    /\ h[e].ev.kind = "command"
    /\ ~Truthy(resolveTeamId(h[e].ev)) \/ Question(h[e].ev) = <<>>
    /\ Len(out[e]) >= 2
    /\ out[e][1].to = "ack"
    /\ out[e][Len(out[e])].to = "respond"

\* C9: while the /ask task waits for the retrieval service (for the headers
\* or for the body), the timeout is pending: a retrieval that never completes
\* is ended by the timer.
C9_RetrievalWaitsUnderTimeout ==
  \A e \in Events :
    h[e].pc \in {"awaitRagHeaders", "awaitRagBody"} => h[e].timer = "armed"

\* C10: when the retrieval fails (a non-2xx status, a network error, a body
\* that is not JSON), the user is shown a generic failure message and never
\* an answer built from the failed response.
C10_FailedRetrievalNoAnswer ==
  \A e \in Events :
    h[e].status = "non2xx"
      => \A i \in DOMAIN out[e] :
           out[e][i].to = "respond" => out[e][i].body.kind # "answer"

\* the tenant lookup of event e has been answered without a tenant id: a
\* non-2xx status, a failed call, or a 2xx body that has no tenant_id
TenantUnresolved(e) ==
  /\ RequestsTo(e, "tenant-lookup") # <<>>
  /\ h[e].pc \notin {"awaitTenant", "awaitAskTenant"}
  /\ h[e].tenant_id = Undef

\* C11: when the tenant lookup fails (non-2xx, or 2xx without a tenant id)
\* the listener stops: no retrieval, intervention, embedding or ingest request
\* and no Slack post is issued for the event; /ask shows the user a generic
\* error, the message listener shows nothing.
C11_TenantFailureAborts ==
  \A e \in Events :
    TenantUnresolved(e)
      => /\ \A i \in DOMAIN out[e] :
              out[e][i].to \notin {"rag", "slack-intervention", "embeddings",
                                  "insights-ingest", "slack"}
         /\ h[e].ev.kind = "command"
              => \E i \in DOMAIN out[e] : out[e][i] = Respond("error", Undef)
         /\ h[e].ev.kind = "message" => RequestsTo(e, "respond") = <<>>

\* a message whose origin is a public channel: its channel type, when it has
\* one, is "channel", its channel id, when it has one, starts with C, and it
\* has at least one of the two
PublicOrigin(m) ==
  /\ Truthy(m.channel_type) => m.channel_type = Sym("channel")
  /\ Truthy(m.channel) => IsStr(m.channel) /\ StartsWith(m.channel.v, "C")
  /\ Truthy(m.channel_type) \/ Truthy(m.channel)

\* C12: isEligibleForInsights returns true only for a message from a public
\* channel: any other channel type, a channel id that does not start with C,
\* and a message with neither channel type nor channel id, are rejected.
C12_OnlyPublicChannels ==
  call.fn = "isEligibleForInsights" /\ ~call.threw /\ call.result = TRUE
    => IsMessage(call.arg) /\ PublicOrigin(call.arg)

\* the words of a raw text: its non-empty pieces between white space (none
\* when the text is no string)
RawWords(x) == IF IsStr(x) THEN NonEmpty(SplitWS(x.v)) ELSE <<>>
\* the message is automated, too short, or only emoji shortcodes
Unwanted(m) ==
  \/ Truthy(m.bot_id)
  \/ m.subtype \in {Sym("bot_message"), Sym("channel_join"),
                    Sym("channel_leave"), Sym("channel_topic"),
                    Sym("channel_purpose"), Sym("file_share")}
  \/ Len(RawWords(m.text)) < 4
  \/ IsStr(m.text) /\ EmojiOnly(Trim(m.text.v))

\* C13: isEligibleForInsights returns false for a message with a bot id, with
\* subtype bot_message, channel_join, channel_leave, channel_topic,
\* channel_purpose or file_share, with fewer than 4 words, or made only of
\* emoji shortcodes, and true for any other public-channel message.
C13_EligibilityRejections ==
  call.fn = "isEligibleForInsights" /\ ~call.threw /\ IsMessage(call.arg)
    => /\ Unwanted(call.arg) => call.result = FALSE
       /\ PublicOrigin(call.arg) /\ ~Unwanted(call.arg) => call.result = TRUE

\* sanitizeTextForInsights has been called and has returned
Sanitized == call.fn = "sanitizeTextForInsights" /\ ~call.threw

\* C14: sanitizeTextForInsights is idempotent: applied to its own result it
\* returns that result unchanged (digit groups that a removed comma leaves
\* side by side are not removed by the second pass).
C14_SanitizeIdempotent == Sanitized => call.again = call.result

\* s has n digits in a row
HasDigitRun(s, n) ==
  \E i \in 1..(Len(s) - n + 1) : \A j \in 0..(n - 1) : s[i + j] \in Digit
\* the pattern re matches somewhere in s
Occurs(re, s) == \E i \in DOMAIN s : MatchFrom(re, 1, s, i) # 0

\* C15: the result of sanitizeTextForInsights holds no phone-shaped digit
\* group, no date, and no run of 4 or more digits, also where the digits
\* were attached to letters or to an underscore.
C15_NoDigitSequences ==
  Sanitized => /\ ~HasDigitRun(call.result, 4)
               /\ ~Occurs(RE_Phone, call.result)
               /\ ~Occurs(RE_Date, call.result)

\* the letters of s, in order
Letters(s) == SelectSeq(s, LAMBDA c : c \in UniLetter)
\* s is made of letters and white space only
Wordy(s) == \A i \in DOMAIN s : s[i] \in UniLetter \cup WhiteSpace

\* C16: the result of sanitizeTextForInsights is made of letters, digits and
\* single spaces, without a space at either end: punctuation, the underscore
\* included, is gone, and letters outside ASCII are kept.
C16_LettersDigitsSpaces ==
  Sanitized
    => /\ \A i \in DOMAIN call.result :
            call.result[i] \in UniLetter \cup Digit \cup {" "}
       /\ call.result # <<>>
            => call.result[1] # " " /\ call.result[Len(call.result)] # " "
       /\ \A i \in 1..(Len(call.result) - 1) :
            ~(call.result[i] = " " /\ call.result[i + 1] = " ")
       /\ IsStr(call.arg) /\ Wordy(call.arg.v)
            => Letters(call.result) = Letters(call.arg.v)

\* C17: isEligibleForInsights, sanitizeTextForInsights and classifySentiment
\* never throw, whatever they are given; sanitizeTextForInsights returns ""
\* for a value that is no string, and classifySentiment returns neutral
\* without labels for "" and for a value that is no string.
C17_TotalFailClosed ==
  call.fn \in {"isEligibleForInsights", "sanitizeTextForInsights",
               "classifySentiment"}
    => /\ ~call.threw
       /\ call.fn = "sanitizeTextForInsights" /\ ~IsStr(call.arg)
            => call.result = <<>>
       /\ call.fn = "classifySentiment"
          /\ (~IsStr(call.arg) \/ call.arg.v = <<>>)
            => call.result.primary = "neutral" /\ call.result.labels = <<>>

\* the text processInsightsSignal hands to sanitizeTextForInsights
HandedToSanitizer(e) ==
  Truncate(RawText(rev, h[e].ev), INSIGHTS_MAX_LEN(rev, env))
\* n lies between the configured minimum and maximum lengths
WithinLimits(n) ==
  /\ LE(INSIGHTS_MIN_LEN(rev, env), Number(n))
  /\ LE(Number(n), INSIGHTS_MAX_LEN(rev, env))

\* C18: under every configuration the text handed to the sanitizer has at
\* most INSIGHTS_MAX_LEN characters, and the sanitized text behind every
\* insights-ingest request has between INSIGHTS_MIN_LEN and INSIGHTS_MAX_LEN
\* characters.
C18_LengthLimits ==
  \A e \in Events :
    /\ InsightsRan(e) /\ ins[e].sanitized # <<>>
         => LE(Number(Len(HandedToSanitizer(e))), INSIGHTS_MAX_LEN(rev, env))
    /\ RequestsTo(e, "insights-ingest") # <<>>
         => WithinLimits(Len(ins[e].sanitized))

\* a configuration variable that is unset, empty, or does not start with a
\* number
Unusable(x) == ~Truthy(x) \/ parseFloat(x.v).nan
\* n is a positive integer
Positive(n) == ~n.nan /\ n.n > 0

\* C19: for every value of the three configuration variables the sample rate
\* is a number in [0, 1] and the two lengths are positive integers, and a
\* variable that is unset or not numeric yields the default.
C19_ConfigDefaults ==
  call.fn = "config"
    => /\ LE(Number(0), call.result.INSIGHTS_SAMPLE)
       /\ LE(call.result.INSIGHTS_SAMPLE, Number(100))
       /\ Positive(call.result.INSIGHTS_MAX_LEN)
       /\ Positive(call.result.INSIGHTS_MIN_LEN)
       /\ Unusable(env.INSIGHTS_SAMPLE_RATE)
            => call.result.INSIGHTS_SAMPLE = parseFloat(DefaultSampleRate(rev))
       /\ Unusable(env.INSIGHTS_MAX_CHARS)
            => call.result.INSIGHTS_MAX_LEN = parseInt(DefaultMaxChars)
       /\ Unusable(env.INSIGHTS_MIN_CHARS_FOR_EMBEDDING)
            => call.result.INSIGHTS_MIN_LEN = parseInt(DefaultMinChars)

\* the lowercased pieces of s between white space
LowerTokens(s) ==
  LET ws == SplitWS(ToLowerCase(s)) IN {ws[i] : i \in DOMAIN ws}

\* C20: extractKeywords returns at most 5 strings, each a lowercased token of
\* the input that is longer than 3 characters and no stop word, and none of
\* them twice.
C20_KeywordsBounded ==
  call.fn = "extractKeywords"
    => /\ Len(call.result) <= 5
       /\ \A i \in DOMAIN call.result :
            /\ call.result[i] \in LowerTokens(call.arg.v)
            /\ Len(call.result[i]) > 3
            /\ call.result[i] \notin StopWords(rev)
            /\ \A j \in DOMAIN call.result :
                 call.result[j] = call.result[i] => j = i

\* C20 witness: a text with six distinct long tokens has been cut to five
\* keywords.
C20_Witness ==
  /\ call.fn = "extractKeywords" /\ call.arg = Str(K_many)
  /\ Len(call.result) = 5

\* the position of the first occurrence of w in ws
FirstIndex(ws, w) ==
  CHOOSE i \in DOMAIN ws : ws[i] = w /\ \A j \in 1..(i - 1) : ws[j] # w

\* C21: the keywords returned by extractKeywords are in descending order of
\* their number of occurrences among the counted tokens, and keywords with the
\* same number are in the order of their first occurrence, whatever the tokens
\* are (numerals and names of inherited properties included).
C21_KeywordsOrdered ==
  call.fn = "extractKeywords"
    => LET ws == KeywordTokens(rev, call.arg.v)
           res == call.result
       IN \A i, j \in DOMAIN res :
            i < j =>
              \/ Count(ws, res[i]) > Count(ws, res[j])
              \/ /\ Count(ws, res[i]) = Count(ws, res[j])
                 /\ FirstIndex(ws, res[i]) < FirstIndex(ws, res[j])

\* whether one of the up to 3 tokens before position i is a negator
AfterNegator(tokens, i) ==
  \E j \in 1..3 : i - j >= 1 /\ tokens[i - j] \in NEGATORS
RECURSIVE Credited(_, _, _, _, _)
\* the sum, over the tokens from position i on, of the weight (times the
\* multiplier) of each word of the lexicon own that no negator precedes and
\* of each word of the lexicon opposite that a negator precedes
Credited(r, tokens, i, own, opposite) ==
  IF i > Len(tokens) THEN 0
  ELSE Multiplier(r, tokens, i)
         * Weight(IF AfterNegator(tokens, i) THEN opposite ELSE own, tokens[i])
       + Credited(r, tokens, i + 1, own, opposite)
\* classifySentiment has returned for a text
ClassifiedText == call.fn = "classifySentiment" /\ ~call.threw /\ IsStr(call.arg)

\* C22: when classifySentiment has scanned a text, the positive score is the
\* sum of the scores of the positive words that no negator precedes within 3
\* tokens and of the negative words that one does precede, and the negative
\* score the reverse; and "I am not happy" is classified as negative.
C22_NegationFlips ==
  ClassifiedText
    => /\ call.result.kind = "object"
            => LET tokens == ClassifyTokens(rev, call.arg.v)
               IN /\ ~call.scores.nan /\ ~call.scores.str
                  /\ call.scores.pos
                       = Credited(rev, tokens, 1, PositiveLexicon(rev),
                                  NegativeLexicon(rev))
                  /\ call.scores.neg
                       = Credited(rev, tokens, 1, NegativeLexicon(rev),
                                  PositiveLexicon(rev))
       /\ call.arg = Str(G_nothappy) => call.result.primary = "negative"

RECURSIVE Weighted(_, _, _, _, _)
\* the sum, over the tokens from position i on whose polarity is flipped (or
\* is not), of the weight of each word of the lexicon, doubled when one of the
\* two tokens before it is an intensifier
Weighted(r, tokens, i, lexicon, flipped) ==
  IF i > Len(tokens) THEN 0
  ELSE (IF Negated(r, tokens, i) = flipped
          THEN Weight(lexicon, tokens[i])
               * (IF \E j \in 1..2 : i - j >= 1 /\ tokens[i - j] \in INTENSIFIERS
                    THEN 2 ELSE 1)
          ELSE 0)
       + Weighted(r, tokens, i + 1, lexicon, flipped)

\* C23: each hit of a polarity word counts its weight times 2 when the token
\* one or two places before it is an intensifier and times 1 otherwise, so
\* the negative score of "very angry and frustrated" is strictly greater than
\* that of "angry and frustrated".
C23_IntensifierDoubles ==
  (ClassifiedText /\ call.result.kind = "object"
     /\ ~call.scores.nan /\ ~call.scores.str)
    => LET tokens == ClassifyTokens(rev, call.arg.v)
       IN /\ call.scores.pos
               = Weighted(rev, tokens, 1, PositiveLexicon(rev), FALSE)
                 + Weighted(rev, tokens, 1, NegativeLexicon(rev), TRUE)
          /\ call.scores.neg
               = Weighted(rev, tokens, 1, NegativeLexicon(rev), FALSE)
                 + Weighted(rev, tokens, 1, PositiveLexicon(rev), TRUE)
          /\ call.arg = Str(G_veryangry)
               => call.scores.neg > Scores(rev, G_angry).neg

\* the words listed in a lexicon
Listed(lexicon) == {p[1] : p \in lexicon}
\* the tokens of a text, as a set
TokenSet(tokens) == {tokens[i] : i \in DOMAIN tokens}
\* the sum of the scores of the polarity hits of the text
PolarityTotal(r, tokens) ==
  Weighted(r, tokens, 1, PositiveLexicon(r), FALSE)
    + Weighted(r, tokens, 1, PositiveLexicon(r), TRUE)
    + Weighted(r, tokens, 1, NegativeLexicon(r), FALSE)
    + Weighted(r, tokens, 1, NegativeLexicon(r), TRUE)

\* C24: the result of classifySentiment has a category label exactly when a
\* token of the text is listed in that category's lexicon; the two scores are
\* finite numbers whose sum is the sum of the scores of the polarity hits, so
\* that neither a token listed nowhere (such as "constructor") nor a hit in a
\* non-polarity category changes them.
C24_LabelsFromLexicons ==
  (ClassifiedText /\ call.result.kind = "object")
    => LET tokens == ClassifyTokens(rev, call.arg.v)
       IN /\ \A k \in DOMAIN CategoryLabels :
               (\E i \in DOMAIN call.result.labels :
                   call.result.labels[i] = CategoryLabels[k])
                 <=> TokenSet(tokens) \cap Listed(CategoryLexicon(rev, k)) # {}
          /\ ~call.scores.nan /\ ~call.scores.str
          /\ call.scores.pos + call.scores.neg = PolarityTotal(rev, tokens)

\* whether the returned labels contain l
Labelled(l) == \E i \in DOMAIN call.result.labels : call.result.labels[i] = l
\* negScore > n at the end of the scan
NegativeAbove(n) ==
  IF call.scores.str THEN StringGreater(call.scores.sneg, Decimal(n))
  ELSE ~call.scores.nan /\ call.scores.neg > n

\* C25: when classifySentiment has scanned a text, primary is negative
\* exactly when the negative score is greater than the positive one, positive
\* exactly when the positive score is greater, and neutral otherwise; the
\* labels contain wellbeing_concern exactly when they contain burnout_risk
\* and the negative score is above 2, retention_flag exactly when they
\* contain attrition_risk and the negative score is above 1, and
\* team_dynamics_issue exactly when they contain conflict_risk and the
\* negative score is above 1; and no label is returned twice.
C25_PrimaryAndEscalation ==
  (ClassifiedText /\ call.result.kind = "object")
    => /\ call.result.primary = "negative" <=> NegGreater(call.scores)
       /\ call.result.primary = "positive" <=> PosGreater(call.scores)
       /\ call.result.primary \in {"negative", "positive", "neutral"}
       /\ Labelled("wellbeing_concern")
            <=> (Labelled("burnout_risk") /\ NegativeAbove(2))
       /\ Labelled("retention_flag")
            <=> (Labelled("attrition_risk") /\ NegativeAbove(1))
       /\ Labelled("team_dynamics_issue")
            <=> (Labelled("conflict_risk") /\ NegativeAbove(1))
       /\ \A i, j \in DOMAIN call.result.labels :
            call.result.labels[i] = call.result.labels[j] => i = j

\* the lower-case words of the classified message text, split at white space
TextWords == NonEmpty(SplitWS(ToLowerCase(call.arg.v)))
\* classifySentiment has scanned a text, raw or sanitized first, in which a
\* negator occurs as a word
NegatorClassified ==
  /\ call.fn \in {"classifySentiment", "classifySanitized"}
  /\ ~call.threw /\ IsStr(call.arg) /\ call.result.kind = "object"
  /\ TokenSet(TextWords) \cap NEGATORS # {}

\* C26: when a negator occurs in the text, a contraction with an apostrophe
\* included, every polarity word within the 3 words after it is credited to
\* the opposite score, whether classifySentiment gets the raw text or the
\* sanitized one.
C26_ContractionsNegate ==
  NegatorClassified
    => /\ ~call.scores.nan /\ ~call.scores.str
       /\ call.scores.pos
            = Credited(rev, TextWords, 1, PositiveLexicon(rev),
                       NegativeLexicon(rev))
       /\ call.scores.neg
            = Credited(rev, TextWords, 1, NegativeLexicon(rev),
                       PositiveLexicon(rev))

\* the replies the message listener of event e has posted to Slack
Replies(e) == SelectSeq(out[e], LAMBDA q : q.to = "slack")
\* the reply is the one the answer's respond_mode asks for
InMode(m, iv, q) ==
  CASE iv.respond_mode = Sym("ephemeral") ->
         q.body.method = "chat.postEphemeral" /\ q.body.user = m.user
    [] iv.respond_mode = Sym("thread_reply") ->
         /\ q.body.method = "chat.postMessage"
         /\ q.body.thread_ts = OrElse(m.thread_ts, m.ts)
    [] OTHER -> q.body.method = "chat.postMessage" /\ q.body.thread_ts = Undef

\* C27: a listener that has posted a reply has read an intervention answer
\* that was JSON with should_respond set and a non-empty reply_text, for a
\* message without subtype and bot id in a channel of type "channel"; its
\* first reply is the one of the answer's mode (ephemeral, in the thread, or
\* a plain channel message), a second reply exists only as the thread reply
\* that follows a failed ephemeral post, and at most one reply was delivered.
C27_InterventionReply ==
  \A e \in Events :
    LET posts == Replies(e)
        m == h[e].ev
        iv == h[e].iv
    IN posts # <<>>
         => /\ iv.kind = "json" /\ iv.should_respond
            /\ IsStr(iv.reply_text) /\ iv.reply_text.v # <<>>
            /\ m.kind = "message"
            /\ ~Truthy(m.subtype) /\ ~Truthy(m.bot_id)
            /\ m.channel_type = Sym("channel")
            /\ InMode(m, iv, posts[1])
            /\ Len(posts) <= 2
            /\ Len(posts) = 2
                 => /\ iv.respond_mode = Sym("ephemeral")
                    /\ h[e].posted # <<>> /\ ~h[e].posted[1]
                    /\ posts[2].body.method = "chat.postMessage"
                    /\ posts[2].body.thread_ts = OrElse(m.thread_ts, m.ts)
            /\ Cardinality({i \in DOMAIN h[e].posted : h[e].posted[i]}) <= 1

\* C27 witness: an ephemeral reply failed and the thread reply posted after
\* it was delivered.
C27_Witness ==
  \E e \in Events :
    /\ Len(Replies(e)) = 2
    /\ h[e].posted = <<FALSE, TRUE>>
    /\ h[e].iv.respond_mode = Sym("ephemeral")

\* the chat.update calls of the listener of event e
Updates(e) == SelectSeq(out[e], LAMBDA q : q.to = "chat.update")

\* C28: a feedback listener has asked Slack to replace the buttons of the
\* message by the thanks only if its feedback submission was answered with a
\* 2xx status: after a non-2xx answer or a failed request there is no update.
C28_ThanksOnlyAfterSuccess ==
  \A e \in Events : Updates(e) # <<>> => h[e].feedback = "ok"

\* the responses of the /ask listener of event e after "Working on it..."
FurtherResponses(e) ==
  SelectSeq(out[e], LAMBDA q : q.to = "respond" /\ q.body.kind # "working")
\* the listener of event e sent "Working on it..." for a command whose
\* workspace id resolves
Working(e) ==
  /\ h[e].ev.kind = "command"
  /\ Truthy(resolveTeamId(h[e].ev))
  /\ \E i \in DOMAIN out[e] :
       out[e][i].to = "respond" /\ out[e][i].body.kind = "working"

\* C29: for a command whose workspace id resolves, once the work after
\* "Working on it..." is over and no respond call failed, exactly one further
\* response was sent (usage hint, answer, retrieval failure or generic error);
\* a command with an empty question issues no tenant lookup and no retrieval
\* request; and the detached task never ends with an unhandled rejection,
\* not even when a respond call fails.
C29_OneResponseNoRejection ==
  \A e \in Events :
    Working(e)
      => /\ (h[e].pc = "done" /\ h[e].posted # <<>>
               /\ \A i \in DOMAIN h[e].posted : h[e].posted[i])
              => /\ Len(FurtherResponses(e)) = 1
                 /\ FurtherResponses(e)[1].body.kind
                      \in {"usage", "answer", "rag-unavailable", "rag-failed",
                           "error"}
         /\ Question(h[e].ev) = <<>>
              => \A i \in DOMAIN out[e] :
                   out[e][i].to \notin {"tenant-lookup", "rag"}
         /\ h[e].term # "unhandled"

\* the listener state of a message handled alone, once its workspace and its
\* tenant are resolved
Alone(r, m) ==
  [Idle EXCEPT !.ev = m, !.teamId = MessageTeamId(r, m),
               !.tenant_id = TenantOf(MessageTeamId(r, m))]
\* the intervention request and the ingest request that each version issues
\* for each of the two messages when it handles that message alone
AloneRequests ==
  [r \in Revisions |->
     [e \in 1 .. MaxPair |->
        LET m == PairMessage(e)
            g == IF r \in InsightsRevs
                   THEN InsightsGates(r, PairEnvironment, m, Number(0))
                   ELSE [exit |-> "none", sanitized |-> <<>>]
        IN [intervention |-> InterventionRequest(Alone(r, m)),
            ingest |-> IngestRequest(r, Alone(r, m).tenant_id, g.sanitized,
                                     IF r = "server" THEN Sym("vector")
                                     ELSE Undef)]]]

\* C30: whatever the interleaving of the listeners of two messages, every
\* intervention request and every insights-ingest request issued for a
\* message is the one issued when that message is handled alone: it carries
\* the tenant of the message's own workspace and the values derived from the
\* message's own text.
C30_HandlersIndependent ==
  \A e \in Events :
    \A i \in DOMAIN out[e] :
      /\ out[e][i].to = "slack-intervention"
           => out[e][i] = AloneRequests[rev][e].intervention
      /\ out[e][i].to = "insights-ingest"
           => out[e][i] = AloneRequests[rev][e].ingest

\* C30 witness: both listeners wait for their intervention answer while both
\* insights tasks wait for their ingest answer, each with its own tenant.
C30_Witness ==
  /\ Cardinality(Events) = 2
  /\ \A e \in Events :
       /\ h[e].pc = "awaitIntervention" /\ ins[e].pc = "awaitIngest"
  /\ h[1].tenant_id # h[2].tenant_id

====
